---- MODULE Spec2Model ----
(***************************************************************************)
(* Model of DatabaseManager (database.js): the article store, the query    *)
(* cache, the category cache, text scoring and the feedback-driven         *)
(* relevance score, with the asynchronous operations split at their awaits.*)
(*                                                                         *)
(* Strings are sequences of one-character strings, so that concatenation,  *)
(* trimming, splitting, lower-casing, substring search and regular-        *)
(* expression matching are computed, not assumed.  relevanceScore is an    *)
(* exact rational [num, den].  The performance metrics (searchCount,       *)
(* cacheHits, searchTime) are counters no modelled operation reads; they   *)
(* are left out.  Every operation starts with `await this.initialize()`    *)
(* and touches no state before it, so its invocation and its resumption    *)
(* after that await are one step, enabled once the database is loaded.     *)
(***************************************************************************)
EXTENDS Integers, Sequences, FiniteSets, TLC

(***************************************************************************)
(* Bounds                                                                  *)
(***************************************************************************)
\* envelopes in searchCache plus searches in flight that may add one
MaxCache == 1
\* feedback events applied while searches run
MaxFeedback == 1
\* feedback events applied when only feedback is given
MaxEvents == 4
\* feedback events applied between the searches of a ranking scenario
MaxRankFeedback == 2
\* performSearch invocations
MaxSearches == 3
\* pages asked for with the load-more button
MaxPage == 1
\* timers set by input events
MaxTimers == 4
\* the largest limit given to getSearchSuggestions
MaxSuggestLimit == 3
\* searches issued between language detections
MaxDetectSearches == 1
\* feedback events processed by RelevanceScoring
MaxProcessed == 3
\* searches tracked by RelevanceScoring
MaxTracked == 1
\* steps of the clock within a session
MaxClockSteps == 2

(***************************************************************************)
(* Strings                                                                 *)
(***************************************************************************)
Digits == <<"0", "1", "2", "3", "4", "5", "6", "7", "8", "9">>

RECURSIVE NatToStr(_)
NatToStr(n) ==
  IF n < 10 THEN <<Digits[n + 1]>>
  ELSE NatToStr(n \div 10) \o <<Digits[(n % 10) + 1]>>

\* the letters with a lower-case form; the letters with a diacritic are
\* written as a letter and a mark ("c<" is c with caron, "n~" n with tilde)
UpperCase ==
  <<"A", "B", "C", "D", "E", "F", "G", "H", "I", "J", "K", "L", "M",
    "N", "O", "P", "Q", "R", "S", "T", "U", "V", "W", "X", "Y", "Z",
    "C<", "C'", "Z<", "S<", "D-", "N~", "A'", "E'", "I'", "O'", "U'">>
LowerCase ==
  <<"a", "b", "c", "d", "e", "f", "g", "h", "i", "j", "k", "l", "m",
    "n", "o", "p", "q", "r", "s", "t", "u", "v", "w", "x", "y", "z",
    "c<", "c'", "z<", "s<", "d-", "n~", "a'", "e'", "i'", "o'", "u'">>
LowerOf == [c \in {UpperCase[i] : i \in 1..Len(UpperCase)} |->
              LowerCase[CHOOSE i \in 1..Len(UpperCase) : UpperCase[i] = c]]

LowerChar(c) == IF c \in DOMAIN LowerOf THEN LowerOf[c] ELSE c

toLowerCase(s) == [i \in 1..Len(s) |-> LowerChar(s[i])]

IsSpace(c) == c = " "

RECURSIVE TrimLeft(_)
TrimLeft(s) == IF s # <<>> /\ IsSpace(Head(s)) THEN TrimLeft(Tail(s)) ELSE s

RECURSIVE TrimRight(_)
TrimRight(s) ==
  IF s # <<>> /\ IsSpace(s[Len(s)]) THEN TrimRight(SubSeq(s, 1, Len(s) - 1)) ELSE s

trim(s) == TrimRight(TrimLeft(s))

\* s.split(/\s+/): the pieces between maximal runs of whitespace; a string
\* without whitespace (the empty one included) is a single piece
\* (the recursion is per piece, not per character)
FirstSpace(s) ==
  LET spaces == {i \in 1..Len(s) : IsSpace(s[i])}
  IN IF spaces = {} THEN Len(s) + 1
     ELSE CHOOSE i \in spaces : \A j \in spaces : i <= j

FirstNonSpace(s) ==
  LET others == {i \in 1..Len(s) : ~IsSpace(s[i])}
  IN IF others = {} THEN Len(s) + 1
     ELSE CHOOSE i \in others : \A j \in others : i <= j

RECURSIVE splitWs(_)
splitWs(s) ==
  IF FirstSpace(s) > Len(s) THEN <<s>>
  ELSE LET rest == SubSeq(s, FirstSpace(s), Len(s))
       IN <<SubSeq(s, 1, FirstSpace(s) - 1)>>
            \o splitWs(SubSeq(rest, FirstNonSpace(rest), Len(rest)))

\* Array.prototype.join(' ')
RECURSIVE join(_)
join(ws) ==
  IF ws = <<>> THEN <<>>
  ELSE IF Len(ws) = 1 THEN ws[1]
  ELSE ws[1] \o <<" ">> \o join(Tail(ws))

IsPrefixAt(p, s, i) ==
  /\ i + Len(p) - 1 <= Len(s)
  /\ \A k \in 1..Len(p) : s[i + k - 1] = p[k]

\* String.prototype.includes
includes(s, p) == \E i \in 1..(Len(s) + 1) : IsPrefixAt(p, s, i)

\* new RegExp(word, 'g') throws a SyntaxError for a pattern with a group
\* that is never closed; of the characters used here only "(" is a
\* metacharacter, every other one matches itself
RegExpThrows(word) == \E i \in 1..Len(word) : word[i] = "("

\* (text.match(new RegExp(word, 'g')) || []).length for a valid, non-empty
\* literal pattern: matches are found left to right and do not overlap
RECURSIVE MatchCountFrom(_, _, _)
MatchCountFrom(text, word, i) ==
  IF i + Len(word) - 1 > Len(text) THEN 0
  ELSE IF IsPrefixAt(word, text, i)
       THEN 1 + MatchCountFrom(text, word, i + Len(word))
       ELSE MatchCountFrom(text, word, i + 1)

matchCount(text, word) == MatchCountFrom(text, word, 1)

(***************************************************************************)
(* The corpus (the JSON file read by _loadDatabase)                        *)
(***************************************************************************)
ArticleIds == {"a1", "a2", "a3"}

CatAll == <<"a", "l", "l">>
CatW == <<"w">>
CatSW == <<"s", "_", "w">>
LangHr == <<"h", "r">>
LangEn == <<"e", "n">>

\* a1 is a Croatian article and a2 its English translation (they share
\* originalId); a3 is a Croatian article without a translation
Corpus ==
  [a1 |-> [title |-> <<"A", " ", "b">>, keywords |-> << <<"B">> >>,
           content |-> <<"a">>, category |-> CatW,
           language |-> LangHr, originalId |-> "o1"],
   a2 |-> [title |-> <<"b">>, keywords |-> << <<"b">> >>,
           content |-> <<"s">>, category |-> CatW,
           language |-> LangEn, originalId |-> "o1"],
   a3 |-> [title |-> <<"S", " ", "a">>, keywords |-> << <<"a">>, <<"S">> >>,
           content |-> <<"s">>, category |-> CatSW,
           language |-> LangHr, originalId |-> "o3"],
   s1 |-> [title |-> <<"A", " ", "b">>,
           keywords |-> << <<"a", " ", "b">>, <<"B", " ", "a">> >>,
           content |-> <<"a">>, category |-> CatW,
           language |-> LangHr, originalId |-> "o4"],
   s2 |-> [title |-> <<"a", " ", "b">>,
           keywords |-> << <<"A", " ", "B">>, <<"b", " ", "a">>, <<"a", " ", "b", "a">> >>,
           content |-> <<"a">>, category |-> CatW,
           language |-> LangHr, originalId |-> "o5"],
   e1 |-> [title |-> <<"b">>, keywords |-> << <<"b">> >>,
           content |-> <<"s">>, category |-> CatW,
           language |-> <<"e", "s">>, originalId |-> "o1"]]

\* order of the articles array in the file
FileOrder == <<"a1", "a2", "a3">>

\* files whose keywords and titles have several words: s1 and s2 repeat
\* keywords and titles of each other and of a1 in other letter cases
SuggestFiles ==
  { <<"s1", "s2", "a1">>, <<"s2", "a2", "s1">>, <<"a3", "s2">> }

\* files with a Spanish version e1 of a1, with and without the Croatian a1
CardFiles ==
  { <<"a2", "e1">>, <<"a1", "a2", "e1">>, <<"e1", "a3">> }

\* article objects that lack a required field: a4 has no content, a5 no
\* title, a6 no id, a7 an empty title
MalformedArticles ==
  [a4 |-> [id |-> "a4", title |-> <<"b">>, category |-> CatW],
   a5 |-> [id |-> "a5", content |-> <<"b">>, category |-> CatW],
   a6 |-> [title |-> <<"b">>, content |-> <<"b">>, category |-> CatW],
   a7 |-> [id |-> "a7", title |-> <<>>, content |-> <<"b">>, category |-> CatW]]

\* the object of the file an entry of an articles array stands for
FileArticle(a) ==
  IF a \in DOMAIN MalformedArticles THEN MalformedArticles[a]
  ELSE [id |-> a] @@ Corpus[a]

\* files with one malformed article among the well-formed ones
MalformedFiles ==
  { <<"a1", "a4", "a2", "a3">>, <<"a5", "a1", "a2", "a3">>,
    <<"a1", "a2", "a3", "a6">>, <<"a1", "a2", "a7", "a3">> }

\* the translations object of a database file written by the converter:
\* category -> language -> list of terms
Translations ==
  [c \in {CatW} |-> [l \in {LangHr, LangEn} |->
      IF l = LangEn THEN << <<"a", "b">> >> ELSE << <<"s">> >>]]

\* relevanceScore of a freshly extracted article
BaseRelevance == [num |-> 1, den |-> 1]


(***************************************************************************)
(* Numbers: relevanceScore as an exact rational                            *)
(***************************************************************************)
RatLT(x, y) == x.num * y.den < y.num * x.den
RatEQ(x, y) == x.num * y.den = y.num * x.den
RatGT(x, y) == RatLT(y, x)

\* searchScore * 0.7 + relevanceScore * 0.3
CombinedScore(searchScore, rel) ==
  [num |-> 7 * searchScore * rel.den + 3 * rel.num, den |-> 10 * rel.den]

\* Array.prototype.sort with the comparator (a, b) => key(b) - key(a): a
\* stable sort, so i precedes j when its key is greater, or when the keys
\* are equal and i stood before j.  K is the sequence of keys; the result
\* lists the old positions in their new order.
\* the comparator with its operands exchanged: (a, b) => key(a) - key(b)
SortsBeforeAscending(K, i, j) == RatLT(K[i], K[j]) \/ (RatEQ(K[i], K[j]) /\ i < j)

SortsBefore(K, i, j) == RatGT(K[i], K[j]) \/ (RatEQ(K[i], K[j]) /\ i < j)

SortedPositions(K) ==
  [p \in 1..Len(K) |->
     CHOOSE i \in 1..Len(K) :
       Cardinality({j \in 1..Len(K) : SortsBefore(K, j, i)}) = p - 1]

sortDesc(seq, K) == [p \in 1..Len(seq) |-> seq[SortedPositions(K)[p]]]

Min(x, y) == IF x < y THEN x ELSE y

\* Array.prototype.slice(offset, offset + limit), offset and limit >= 0
slice(seq, offset, limit) == SubSeq(seq, offset + 1, Min(offset + limit, Len(seq)))

RECURSIVE SumSeq(_)
SumSeq(ns) == IF ns = <<>> THEN 0 ELSE Head(ns) + SumSeq(Tail(ns))

(***************************************************************************)
(* Scoring                                                                 *)
(***************************************************************************)
titleText(a) == toLowerCase(Corpus[a].title)
contentText(a) == toLowerCase(Corpus[a].content)
keywordText(a) == toLowerCase(join(Corpus[a].keywords))

\* the translation block of _calculateRelevanceScore for one word: +3 for
\* every category of data.translations whose list for the language has a
\* term that includes the word
TranslationBonus(word, language, withTranslations) ==
  IF ~withTranslations THEN 0
  ELSE 3 * Cardinality({c \in DOMAIN Translations :
         LET list == IF language \in DOMAIN Translations[c]
                     THEN Translations[c][language] ELSE <<>>
         IN \E k \in 1..Len(list) : includes(list[k], word)})

\* what one iteration of queryWords.forEach adds to score
WordScore(a, word, queryWords, language, withTranslations) ==
    10 * matchCount(titleText(a), word)
  + 5 * matchCount(keywordText(a), word)
  + matchCount(contentText(a), word)
  + (IF Len(queryWords) > 1
     THEN (IF includes(titleText(a), join(queryWords)) THEN 20 ELSE 0)
        + (IF includes(contentText(a), join(queryWords)) THEN 10 ELSE 0)
     ELSE 0)
  + TranslationBonus(word, language, withTranslations)

\* _calculateRelevanceScore throws when new RegExp(word) does
calculateThrows(queryWords) ==
  \E k \in 1..Len(queryWords) : RegExpThrows(queryWords[k])

_calculateRelevanceScore(a, queryWords, language, withTranslations) ==
  SumSeq([k \in 1..Len(queryWords) |->
            WordScore(a, queryWords[k], queryWords, language, withTranslations)])

queryWordsOf(query) == splitWs(trim(toLowerCase(query)))

\* _performTextSearch: the scored copies of the matching articles, sorted.
\* rel is the relevanceScore of every article at the time of the call.
\* (highlightedTitle and highlightedContent, markup computed from the same
\* words, are not carried in the copies.)
textSearchThrows(arr, query) == arr # <<>> /\ calculateThrows(queryWordsOf(query))

_performTextSearch(arr, query, language, withTranslations, rel) ==
  LET words == queryWordsOf(query)
      scoreOf(a) == _calculateRelevanceScore(a, words, language, withTranslations)
      matching == SelectSeq(arr, LAMBDA a : scoreOf(a) > 0)
      copies == [k \in 1..Len(matching) |->
                   [id |-> matching[k], copy |-> TRUE,
                    searchScore |-> scoreOf(matching[k]),
                    relevanceScore |-> rel[matching[k]]]]
      keys == [k \in 1..Len(copies) |->
                 CombinedScore(copies[k].searchScore, copies[k].relevanceScore)]
  IN sortDesc(copies, keys)

\* article.crossLanguageMatch as createResultCard reads it from a result: a
\* result is the article itself or a spread copy of it, so it has the field
\* only if the article in the file has it
crossLanguageMatch(r) ==
  "crossLanguageMatch" \in DOMAIN Corpus[r.id] /\ Corpus[r.id].crossLanguageMatch

\* the articles of the searched array that match the query (score > 0)
MatchedIds(p, arr, withTranslations) ==
  {arr[k] : k \in {j \in 1..Len(arr) :
     _calculateRelevanceScore(arr[j], queryWordsOf(p.query), p.language,
                              withTranslations) > 0}}


(***************************************************************************)
(* LanguageManager: the detection patterns and detectLanguage              *)
(***************************************************************************)
LangEs == <<"e", "s">>

supportedLanguages == <<LangHr, LangEn, LangEs>>

HrWords ==
  << <<"c<", "l", "a", "n", "a", "k">>,
     <<"r", "a", "d", "n", "i", "k">>,
     <<"r", "a", "d", "n", "i", "c", "a">>,
     <<"p", "o", "s", "l", "o", "d", "a", "v", "a", "c">>,
     <<"u", "g", "o", "v", "o", "r">>, <<"r", "a", "d", "u">>,
     <<"r", "a", "d", "a">>, <<"p", "o", "s", "a", "o">>,
     <<"p", "o", "s", "l", "a">>,
     <<"z", "a", "p", "o", "s", "l", "a", "v", "a", "n", "j", "e">>,
     <<"z", "a", "p", "o", "s", "l", "e", "n", "i", "k">>,
     <<"z", "a", "p", "o", "s", "l", "e", "n", "i", "c", "a">>,
     <<"o", "t", "k", "a", "z">>,
     <<"o", "t", "k", "a", "z", "u", "j", "e">>,
     <<"p", "r", "e", "k", "i", "d", "a">>,
     <<"g", "o", "d", "i", "s<", "n", "j", "i">>,
     <<"o", "d", "m", "o", "r">>, <<"d", "o", "p", "u", "s", "t">>,
     <<"b", "o", "l", "o", "v", "a", "n", "j", "e">>,
     <<"b", "o", "l", "o", "v", "a", "n">>,
     <<"p", "l", "a", "c'", "a">>, <<"p", "l", "a", "c'", "e">>,
     <<"n", "a", "k", "n", "a", "d", "a">>,
     <<"n", "a", "k", "n", "a", "d", "e">>,
     <<"s", "a", "t", "n", "i", "c", "a">>, <<"r", "a", "d", "n", "i">>,
     <<"r", "a", "d", "n", "a">>, <<"r", "a", "d", "n", "o">>,
     <<"v", "r", "i", "j", "e", "m", "e">>,
     <<"v", "r", "e", "m", "e", "n", "a">>,
     <<"s", "m", "j", "e", "n", "a">>, <<"s", "m", "j", "e", "n", "e">>,
     <<"p", "r", "e", "k", "o", "v", "r", "e", "m", "e", "n", "i">>,
     <<"n", "o", "c'", "n", "i">>, <<"v", "i", "k", "e", "n", "d">>,
     <<"p", "r", "a", "z", "n", "i", "c", "i">> >>

HrChars == << <<"c<">>, <<"c'">>, <<"z<">>, <<"s<">>, <<"d-">> >>

HrCommonWords ==
  << <<"i">>, <<"u">>, <<"n", "a">>, <<"z", "a">>, <<"o", "d">>,
     <<"d", "o">>, <<"i", "z">>, <<"s", "a">>, <<"p", "o">>,
     <<"p", "r", "i">>, <<"k", "r", "o", "z">>, <<"j", "e">>,
     <<"s", "u">>, <<"s", "e">> >>

EnWords ==
  << <<"e", "m", "p", "l", "o", "y", "m", "e", "n", "t">>,
     <<"e", "m", "p", "l", "o", "y", "e", "e">>,
     <<"e", "m", "p", "l", "o", "y", "e", "r">>,
     <<"c", "o", "n", "t", "r", "a", "c", "t">>, <<"w", "o", "r", "k">>,
     <<"j", "o", "b">>, <<"l", "a", "b", "o", "r">>,
     <<"l", "a", "b", "o", "u", "r">>,
     <<"t", "e", "r", "m", "i", "n", "a", "t", "i", "o", "n">>,
     <<"d", "i", "s", "m", "i", "s", "s", "a", "l">>,
     <<"f", "i", "r", "i", "n", "g">>, <<"l", "a", "y", "o", "f", "f">>,
     <<"v", "a", "c", "a", "t", "i", "o", "n">>,
     <<"h", "o", "l", "i", "d", "a", "y">>, <<"l", "e", "a", "v", "e">>,
     <<"s", "a", "l", "a", "r", "y">>, <<"w", "a", "g", "e">>,
     <<"w", "a", "g", "e", "s">>,
     <<"c", "o", "m", "p", "e", "n", "s", "a", "t", "i", "o", "n">>,
     <<"o", "v", "e", "r", "t", "i", "m", "e">>,
     <<"h", "o", "u", "r", "s">>, <<"s", "h", "i", "f", "t">>,
     <<"s", "i", "c", "k">>, <<"m", "e", "d", "i", "c", "a", "l">>,
     <<"b", "e", "n", "e", "f", "i", "t", "s">>,
     <<"a", "n", "n", "u", "a", "l">>,
     <<"w", "o", "r", "k", "i", "n", "g">>, <<"t", "i", "m", "e">> >>

EnChars == << >>

EnCommonWords ==
  << <<"t", "h", "e">>, <<"a", "n", "d">>, <<"o", "r">>, <<"o", "f">>,
     <<"t", "o">>, <<"i", "n">>, <<"f", "o", "r">>,
     <<"w", "i", "t", "h">>, <<"b", "y">>, <<"f", "r", "o", "m">>,
     <<"i", "s">>, <<"a", "r", "e">>, <<"w", "a", "s">> >>

EsWords ==
  << <<"e", "m", "p", "l", "e", "o">>,
     <<"e", "m", "p", "l", "e", "a", "d", "o">>,
     <<"e", "m", "p", "l", "e", "a", "d", "a">>,
     <<"e", "m", "p", "l", "e", "a", "d", "o", "r">>,
     <<"c", "o", "n", "t", "r", "a", "t", "o">>,
     <<"t", "r", "a", "b", "a", "j", "o">>,
     <<"l", "a", "b", "o", "r", "a", "l">>,
     <<"t", "e", "r", "m", "i", "n", "a", "c", "i", "o'", "n">>,
     <<"d", "e", "s", "p", "i", "d", "o">>, <<"c", "e", "s", "e">>,
     <<"v", "a", "c", "a", "c", "i", "o", "n", "e", "s">>,
     <<"d", "i'", "a", "s">>, <<"l", "i", "b", "r", "e", "s">>,
     <<"p", "e", "r", "m", "i", "s", "o">>,
     <<"s", "a", "l", "a", "r", "i", "o">>,
     <<"s", "u", "e", "l", "d", "o">>,
     <<"c", "o", "m", "p", "e", "n", "s", "a", "c", "i", "o'", "n">>,
     <<"h", "o", "r", "a", "s">>, <<"e", "x", "t", "r", "a", "s">>,
     <<"t", "u", "r", "n", "o">>,
     <<"e", "n", "f", "e", "r", "m", "e", "d", "a", "d">>,
     <<"m", "e'", "d", "i", "c", "o">>,
     <<"b", "e", "n", "e", "f", "i", "c", "i", "o", "s">>,
     <<"a", "n", "u", "a", "l">>,
     <<"t", "r", "a", "b", "a", "j", "a", "d", "o", "r">>,
     <<"t", "r", "a", "b", "a", "j", "a", "d", "o", "r", "a">> >>

EsChars == << <<"n~">>, <<"a'">>, <<"e'">>, <<"i'">>, <<"o'">>, <<"u'">> >>

EsCommonWords ==
  << <<"e", "l">>, <<"l", "a">>, <<"y">>, <<"o">>, <<"d", "e">>,
     <<"e", "n">>, <<"p", "o", "r">>, <<"p", "a", "r", "a">>,
     <<"c", "o", "n">>, <<"e", "s">>, <<"s", "o", "n">>,
     <<"e", "s", "t", "a'">> >>

languagePatterns ==
  (LangHr :> [words |-> HrWords, chars |-> HrChars, commonWords |-> HrCommonWords])
  @@ (LangEn :> [words |-> EnWords, chars |-> EnChars, commonWords |-> EnCommonWords])
  @@ (LangEs :> [words |-> EsWords, chars |-> EsChars, commonWords |-> EsCommonWords])

InSeq(x, seq) == \E i \in 1..Len(seq) : seq[i] = x

\* scores[lang] at the end of the three passes over normalizedText
LanguageScore(normalizedText, lang) ==
  LET pat == languagePatterns[lang]
      textWords == splitWs(normalizedText)
  IN   10 * SumSeq([i \in 1..Len(pat.chars) |-> matchCount(normalizedText, pat.chars[i])])
     + 5 * SumSeq([i \in 1..Len(pat.words) |->
                     IF includes(normalizedText, pat.words[i]) THEN 1 ELSE 0])
     + SumSeq([i \in 1..Len(textWords) |->
                 IF InSeq(textWords[i], pat.commonWords) THEN 1 ELSE 0])

\* the loop over Object.keys(scores): a language replaces the best so far
\* only with a strictly greater score
RECURSIVE BestLanguage(_, _, _, _)
BestLanguage(normalizedText, langs, detectedLang, maxScore) ==
  IF langs = <<>> THEN [lang |-> detectedLang, score |-> maxScore]
  ELSE LET score == LanguageScore(normalizedText, Head(langs))
       IN IF score > maxScore
          THEN BestLanguage(normalizedText, Tail(langs), Head(langs), score)
          ELSE BestLanguage(normalizedText, Tail(langs), detectedLang, maxScore)

\* a detection that also accepts a score of exactly 2
detectLanguageFromTwo(text, current) ==
  IF Len(trim(text)) < 3 THEN current
  ELSE LET best == BestLanguage(trim(toLowerCase(text)), supportedLanguages, current, 0)
       IN IF best.score >= 2 THEN best.lang ELSE current

detectLanguage(text, current) ==
  IF Len(trim(text)) < 3 THEN current
  ELSE LET best == BestLanguage(trim(toLowerCase(text)), supportedLanguages, current, 0)
       IN IF best.score > 2 THEN best.lang ELSE current

\* setLanguage(langCode): currentLanguage after it
setLanguage(langCode, current) ==
  IF InSeq(langCode, supportedLanguages) THEN langCode ELSE current

\* setLanguage(langCode): the stored preference after it
saveLanguagePreference(langCode, savedLang) ==
  IF InSeq(langCode, supportedLanguages) THEN langCode ELSE savedLang

\* autoDetectAndSwitch followed by setLanguage up to its assignment of
\* currentLanguage: the value of currentLanguage afterwards
autoDetectAndSwitch(searchText, current) ==
  LET detectedLang == detectLanguage(searchText, current)
  IN IF detectedLang # current /\ InSeq(detectedLang, supportedLanguages)
     THEN detectedLang ELSE current

(***************************************************************************)
(* Inputs of the operations                                                *)
(***************************************************************************)
Queries ==
  { <<>>, <<" ">>, <<"a">>, <<"a", "_", "s">>, <<"(">>, <<"A", " ", "b">> }
Categories == {CatAll, CatW, CatSW}
Languages == {LangEn}
Limits == {2}
Offsets == {0, 1}

SearchParams ==
  [query : Queries, category : Categories, language : Languages,
   limit : Limits, offset : Offsets]

\* ids passed to updateRelevanceScore; "a9" is in no corpus
FeedbackIds == ArticleIds \cup {"a9"}

PartialQueries == { <<"a">>, <<"S", " ">> }
SuggestLimits == {1}

\* RelevanceScoring settings
minFeedbackThreshold == 3
DayMs == 86400000
\* Date.now() when the page is opened
SessionStart == 1000

\* SearchEngine settings
maxHistoryItems == 10
resultsPerPage == 10
debounceDelay == 300
suggestionDelay == 150

\* the limit updateSearchSuggestions passes to getSearchSuggestions
suggestionCount == 5

(***************************************************************************)
(* State                                                                   *)
(***************************************************************************)
VARIABLES
  isLoaded,         \* this.isLoaded
  loadPromise,      \* the state of this.loadPromise
  articles,         \* this.data.articles: the ids in array order
  hasTranslations,  \* whether this.data.translations exists
  userFeedback,     \* article.userFeedback of every article
  relevanceScore,   \* article.relevanceScore of every article
  cache,            \* this.cache: category -> array of articles
  searchCache,      \* this.searchCache: cache key -> result envelope
  stored,           \* localStorage 'croatianLawFeedback': id -> feedback
  calls,            \* the searchArticles calls suspended at an await
  ret,              \* what the step just taken resolved or rejected with
  currentQuery,     \* SearchEngine.currentQuery
  currentFilters,   \* SearchEngine.currentFilters.category
  currentPage,      \* SearchEngine.currentPage
  currentLanguage,  \* LanguageManager.currentLanguage
  issued,           \* number of performSearch invocations so far
  microtasks,       \* the job queue: continuations of the async functions
  loadWaiters,      \* continuations waiting for loadPromise, in order
  container,        \* the cards in #results-container
  shownBy,          \* the performSearch invocations that last wrote them and
                    \* that last showed the error toast
  timers,           \* the pending setTimeout callbacks, with the time left
  searchTimeout,    \* SearchEngine.searchTimeout: a timer id, 0 for null
  timerCount,       \* timer ids handed out so far
  inputValue,       \* value of the #search-input box
  lastInput,        \* the last input event: its value, its age, the length of
                    \* the burst it ends, whether currentQuery was replaced since
  suggestionBox,    \* the items shown in #search-suggestions
  scoring,          \* the RelevanceScoring object
  dateNow,          \* Date.now(), in milliseconds
  searchHistory,    \* SearchEngine.searchHistory, as kept in localStorage
  savedLanguage,    \* localStorage 'croatianLawLanguage', <<>> for none
  languageInitialized,  \* LanguageManager.isInitialized
  theme,            \* the ThemeManager object, the data-theme attribute and
                    \* localStorage 'croatianLawTheme'
  engine            \* SearchEngine.isInitialized, its initialize() calls
                    \* suspended at the await, and how many times
                    \* setupEventListeners has registered the listeners

dbVars == <<isLoaded, loadPromise, articles, hasTranslations, userFeedback, relevanceScore,
            cache, searchCache, stored, calls, ret>>

\* the DatabaseManager state without the result of the last step
dbData == <<isLoaded, loadPromise, articles, hasTranslations, userFeedback, relevanceScore,
            cache, searchCache, stored, calls>>

uiVars == <<currentQuery, currentFilters, currentPage, currentLanguage, savedLanguage, languageInitialized, issued,
            microtasks, loadWaiters, container, shownBy, searchHistory>>

pageVars == <<timers, searchTimeout, timerCount, inputValue, lastInput,
              suggestionBox>>

scoringVars == <<scoring, dateNow>>

shellVars == <<theme, engine>>

vars == <<dbVars, uiVars, pageVars, scoringVars, shellVars>>

\* a step of the DatabaseManager alone
DatabaseOnly == UNCHANGED <<uiVars, pageVars, scoringVars, shellVars>>

\* a step that leaves RelevanceScoring and the page shell as they are
NoScoring == UNCHANGED <<scoringVars, shellVars>>

Slots == 1..MaxCache
Idle == [pc |-> "idle"]
NoReturn == [op |-> "none"]

\* this.categoryIndex, built once by _initializeSearchIndex from the file
categoryIndex(category) ==
  SelectSeq(FileOrder, LAMBDA a : Corpus[a].category = category)

\* an array in place of the Set: every insertion is kept
NoDedup(seq, seen) == seq

RECURSIVE Dedup(_, _)
Dedup(seq, seen) ==
  IF seq = <<>> THEN <<>>
  ELSE IF Head(seq) \in seen THEN Dedup(Tail(seq), seen)
       ELSE <<Head(seq)>> \o Dedup(Tail(seq), seen \cup {Head(seq)})

RECURSIVE Flatten(_)
Flatten(ss) == IF ss = <<>> THEN <<>> ELSE Head(ss) \o Flatten(Tail(ss))

\* data.articles as it was when _initializeSearchIndex ran: the file
\* that holds the articles of the array
LoadedFile ==
  LET loaded == {articles[k] : k \in 1..Len(articles)}
      files == {f \in SuggestFiles : {f[k] : k \in 1..Len(f)} = loaded}
  IN IF files = {} THEN FileOrder ELSE CHOOSE f \in files : TRUE

\* this.keywordIndex: a Set, so in order of first insertion
keywordIndex ==
  Dedup(Flatten([k \in 1..Len(LoadedFile) |->
           [j \in 1..Len(Corpus[LoadedFile[k]].keywords) |->
              toLowerCase(Corpus[LoadedFile[k]].keywords[j])]]), {})

\* `search_${query}_${category}_${language}_${limit}_${offset}`
cacheKey(p) ==
  <<"s", "e", "a", "r", "c", "h", "_">> \o p.query \o <<"_">> \o p.category
    \o <<"_">> \o p.language \o <<"_">> \o NatToStr(p.limit)
    \o <<"_">> \o NatToStr(p.offset)

\* the state the constructors leave, this.loadPromise apart
Constructed ==
  /\ isLoaded = FALSE
  /\ articles = <<>>
  /\ hasTranslations = FALSE
  /\ userFeedback = [a \in ArticleIds |-> [helpful |-> 0, notHelpful |-> 0]]
  /\ relevanceScore = [a \in ArticleIds |-> BaseRelevance]
  /\ cache = <<>>
  /\ searchCache = <<>>
  /\ stored = <<>>
  /\ calls = [i \in Slots |-> Idle]
  /\ ret = NoReturn
  /\ currentQuery = <<>>
  /\ currentFilters = CatAll
  /\ currentPage = 0
  /\ currentLanguage = LangHr
  /\ savedLanguage = <<>>
  /\ searchHistory = <<>>
  /\ languageInitialized = FALSE
  /\ issued = 0
  /\ microtasks = <<>>
  /\ loadWaiters = <<>>
  /\ container = <<>>
  /\ shownBy = [results |-> 0, error |-> 0]
  /\ timers = {}
  /\ searchTimeout = 0
  /\ timerCount = 0
  /\ inputValue = <<>>
  /\ lastInput = [value |-> <<>>, age |-> debounceDelay, burst |-> 0, replaced |-> FALSE]
  /\ suggestionBox = <<>>
  /\ scoring = [feedbackFrequency |-> 0, sessionFeedback |-> <<>>,
                articleFeedback |-> <<>>, adaptiveScores |-> <<>>,
                profile |-> <<>>, currentSearchContext |-> <<>>,
                currentResultStartTime |-> 0, searchPatterns |-> <<>>,
                categoryPreferences |-> <<>>, plainMetrics |-> FALSE,
                storedProfile |-> <<>>, storedBehavior |-> <<>>]
  /\ dateNow = SessionStart
  /\ theme = [currentTheme |-> "light", isInitialized |-> FALSE,
              prefersDarkMode |-> FALSE, isTransitioning |-> FALSE,
              applying |-> <<>>, dataTheme |-> "", saved |-> ""]
  /\ engine = [isInitialized |-> FALSE, awaiting |-> 0, listeners |-> 0]

\* the page once DOMContentLoaded has called window.Database.initialize():
\* _loadDatabase is running
Init ==
  /\ loadPromise = "pending"
  /\ Constructed

\* the page before DOMContentLoaded: this.loadPromise = null
InitConstructed ==
  /\ loadPromise = "null"
  /\ Constructed

\* initialize() that calls _loadDatabase whatever this.loadPromise holds
initializeAgain(promise) ==
  [loadPromise |-> "pending", started |-> TRUE]

\* initialize(): the promise it returns, and whether it called _loadDatabase
initialize(promise) ==
  IF promise # "null"
  THEN [loadPromise |-> promise, started |-> FALSE]
  ELSE [loadPromise |-> "pending", started |-> TRUE]

\* a call of initialize(), made directly or as the first statement of
\* searchArticles, getArticleById, getSearchSuggestions, updateRelevanceScore
Initialize ==
  /\ loadPromise' = initialize(loadPromise).loadPromise
  /\ ret' = [op |-> "initialize", started |-> initialize(loadPromise).started,
             promise |-> initialize(loadPromise).loadPromise]
  /\ UNCHANGED <<isLoaded, articles, hasTranslations, userFeedback, relevanceScore,
                 cache, searchCache, stored, calls>>

\* a field of an article object that is present and not empty
Truthy(article, field) ==
  /\ field \in DOMAIN article
  /\ IF field = "id" THEN article[field] # "" ELSE article[field] # <<>>

\* the forEach of _validateData: no article throws
_validateData(dataArticles) ==
  \A k \in 1..Len(dataArticles) :
    LET article == FileArticle(dataArticles[k])
    IN Truthy(article, "id") /\ Truthy(article, "title") /\ Truthy(article, "content")

\* a load that leaves the malformed articles out
WellFormedArticles(rawData) ==
  SelectSeq(rawData, LAMBDA a : _validateData(<<a>>))

\* this.data.articles = rawData
DataArticles(rawData) == rawData

\* _loadDatabase settling on the file rawData: this.data is assigned, then
\* _validateData either throws, which rejects loadPromise and leaves
\* isLoaded false, or the indexes are built and isLoaded is set
LoadFile(rawData, withTranslations) ==
  /\ loadPromise = "pending"
  /\ articles' = DataArticles(rawData)
  /\ IF _validateData(DataArticles(rawData))
     THEN /\ isLoaded' = TRUE
          /\ loadPromise' = "fulfilled"
          /\ hasTranslations' = withTranslations
     ELSE /\ loadPromise' = "rejected"
          /\ UNCHANGED <<isLoaded, hasTranslations>>
  /\ ret' = NoReturn
  /\ UNCHANGED <<userFeedback, relevanceScore, cache, searchCache, stored, calls>>

\* _loadDatabase resolving: the file is either the bare array of articles
\* or the converter's object, which carries translations
LoadDatabase(withTranslations) == LoadFile(FileOrder, withTranslations)

\* `await this.initialize()` at the top of searchArticles, getArticleById
\* and getSearchSuggestions when loadPromise is rejected: the call rejects
InitializeRejected(op) ==
  /\ loadPromise = "rejected"
  /\ ret' = [op |-> op, status |-> "threw"]
  /\ UNCHANGED dbData

\* this.articleMap.get(articleId)
articleMapGet(articleId) ==
  IF \E k \in 1..Len(articles) : articles[k] = articleId
  THEN articleId ELSE "undefined"

\* a lookup returned as it is
AsFound(value) == value

\* value || null
OrNull(value) == IF value = "undefined" THEN "null" ELSE value

\* getArticleById(articleId)
GetArticleById(articleId) ==
  /\ isLoaded
  /\ ret' = [op |-> "byId", articleId |-> articleId,
             value |-> OrNull(articleMapGet(articleId))]
  /\ UNCHANGED dbData

(***************************************************************************)
(* searchArticles                                                          *)
(***************************************************************************)
\* the array the local `articles` of searchArticles refers to
ArrayOf(arr) ==
  IF arr.kind = "data" THEN articles
  ELSE IF arr.kind = "cached" THEN cache[arr.category]
  ELSE arr.copy

\* results of the empty query are the article objects themselves
RefResults(ids) == [k \in 1..Len(ids) |-> [id |-> ids[k], copy |-> FALSE]]

\* the searchResult object (searchTime, a clock reading, left out)
Envelope(p, results) ==
  [query |-> p.query, results |-> results, total |-> Len(results),
   offset |-> p.offset, limit |-> p.limit,
   hasMore |-> p.offset + p.limit < Len(results),
   language |-> p.language, category |-> p.category]

\* searchArticles from `if (!query.trim())` to its return, on the array arr
ComputeAndCache(p, arr) ==
  LET array == ArrayOf(arr) IN
  IF trim(p.query) = <<>>
  THEN LET sorted == sortDesc(array, [k \in 1..Len(array) |-> relevanceScore[array[k]]])
           env == Envelope(p, RefResults(slice(sorted, p.offset, p.limit)))
       IN /\ articles' = IF arr.kind = "data" THEN sorted ELSE articles
          /\ cache' = IF arr.kind = "cached"
                      THEN [cache EXCEPT ![arr.category] = sorted] ELSE cache
          /\ searchCache' = (cacheKey(p) :> env) @@ searchCache
          /\ ret' = [op |-> "search", params |-> p, status |-> "ok",
                     value |-> env, hit |-> FALSE]
  ELSE IF textSearchThrows(array, p.query)
  THEN /\ ret' = [op |-> "search", params |-> p, status |-> "threw"]
       /\ UNCHANGED <<articles, cache, searchCache>>
  ELSE LET found == _performTextSearch(array, p.query, p.language,
                                       hasTranslations, relevanceScore)
           env == Envelope(p, slice(found, p.offset, p.limit))
       IN /\ searchCache' = (cacheKey(p) :> env) @@ searchCache
          /\ ret' = [op |-> "search", params |-> p, status |-> "ok",
                     value |-> env, hit |-> FALSE]
          /\ UNCHANGED <<articles, cache>>

\* the slot a call that suspends takes: the first free one
FreeSlot(i) == calls[i] = Idle /\ \A j \in Slots : j < i => calls[j] # Idle

\* searchArticles up to its next await: the cache check and, for category
\* 'all', the rest of the function; else it suspends in getArticlesByCategory
SearchArticles(p) ==
  /\ isLoaded
  /\ IF cacheKey(p) \in DOMAIN searchCache
     THEN /\ ret' = [op |-> "search", params |-> p, status |-> "ok",
                     value |-> searchCache[cacheKey(p)], hit |-> TRUE]
          /\ UNCHANGED <<articles, cache, searchCache, calls>>
     ELSE IF p.category = CatAll
     THEN /\ ComputeAndCache(p, [kind |-> "data"])
          /\ UNCHANGED calls
     ELSE /\ \E i \in Slots :
               /\ FreeSlot(i)
               /\ calls' = [calls EXCEPT ![i] = [pc |-> "category", params |-> p]]
          /\ ret' = NoReturn
          /\ UNCHANGED <<articles, cache, searchCache>>
  /\ UNCHANGED <<isLoaded, loadPromise, hasTranslations, userFeedback, relevanceScore, stored>>

\* getArticlesByCategory after its own `await this.initialize()`: a hit
\* returns the cached array itself, a miss caches one copy of the index
\* list and returns another
GetArticlesByCategory(i) ==
  /\ calls[i].pc = "category"
  /\ LET c == calls[i].params.category IN
     IF c \in DOMAIN cache
     THEN /\ calls' = [calls EXCEPT ![i] =
                 [pc |-> "compute", params |-> calls[i].params,
                  arr |-> [kind |-> "cached", category |-> c]]]
          /\ cache' = cache
     ELSE /\ calls' = [calls EXCEPT ![i] =
                 [pc |-> "compute", params |-> calls[i].params,
                  arr |-> [kind |-> "copy", copy |-> categoryIndex(c)]]]
          /\ cache' = (c :> categoryIndex(c)) @@ cache
  /\ ret' = NoReturn
  /\ UNCHANGED <<isLoaded, loadPromise, articles, hasTranslations, userFeedback,
                 relevanceScore, searchCache, stored>>

\* searchArticles resumed after `await this.getArticlesByCategory(category)`
SearchCompute(i) ==
  /\ calls[i].pc = "compute"
  /\ ComputeAndCache(calls[i].params, calls[i].arr)
  /\ calls' = [calls EXCEPT ![i] = Idle]
  /\ UNCHANGED <<isLoaded, loadPromise, hasTranslations, userFeedback, relevanceScore, stored>>

(***************************************************************************)
(* updateRelevanceScore                                                    *)
(***************************************************************************)
\* the counter update of updateRelevanceScore
CountFeedback(fb, isHelpful) ==
  IF isHelpful THEN [fb EXCEPT !.helpful = @ + 1]
  ELSE [fb EXCEPT !.notHelpful = @ + 1]

\* the score with the ratio taken once instead of twice
NewRelevanceScoreUnscaled(fb) ==
  LET totalFeedback == fb.helpful + fb.notHelpful
  IN [num |-> totalFeedback + (fb.helpful - totalFeedback), den |-> totalFeedback]

\* the score with the helpful count in place of the helpful ratio
NewRelevanceScoreUndivided(fb) ==
  [num |-> 1 + (2 * fb.helpful - 1), den |-> 1]

\* 1.0 + (helpfulRatio * 2 - 1) with helpfulRatio = helpful / totalFeedback,
\* for totalFeedback > 0
NewRelevanceScore(fb) ==
  LET totalFeedback == fb.helpful + fb.notHelpful
  IN [num |-> totalFeedback + (2 * fb.helpful - totalFeedback), den |-> totalFeedback]

\* _storeUserFeedback: the write is lost when localStorage throws
StoreUserFeedback(st, articleId, fb, storageThrows) ==
  IF storageThrows THEN st ELSE (articleId :> fb) @@ st

\* an update that leaves the query cache as it is
KeptSearchCache(c) == c

\* this.searchCache.clear(), the last line of updateRelevanceScore
ClearedSearchCache(c) == <<>>

UpdateRelevanceScore(articleId, isHelpful, storageThrows) ==
  /\ isLoaded
  /\ IF ~(\E k \in 1..Len(articles) : articles[k] = articleId)
     THEN UNCHANGED <<userFeedback, relevanceScore, stored, searchCache>>
     ELSE LET fb == CountFeedback(userFeedback[articleId], isHelpful) IN
          /\ userFeedback' = [userFeedback EXCEPT ![articleId] = fb]
          /\ relevanceScore' =
               IF fb.helpful + fb.notHelpful > 0
               THEN [relevanceScore EXCEPT ![articleId] = NewRelevanceScore(fb)]
               ELSE relevanceScore
          /\ stored' = StoreUserFeedback(stored, articleId, fb, storageThrows)
          /\ searchCache' = ClearedSearchCache(searchCache)
  /\ ret' = [op |-> "update", articleId |-> articleId, isHelpful |-> isHelpful]
  /\ UNCHANGED <<isLoaded, loadPromise, articles, hasTranslations, cache, calls>>

\* the page is opened again: a new DatabaseManager is constructed, whose
\* articles, counters and scores will be those of the file; local storage
\* keeps what _storeUserFeedback wrote
PageReload ==
  /\ isLoaded' = FALSE
  /\ loadPromise' = "pending"
  /\ articles' = <<>>
  /\ hasTranslations' = FALSE
  /\ userFeedback' = [a \in ArticleIds |-> [helpful |-> 0, notHelpful |-> 0]]
  /\ relevanceScore' = [a \in ArticleIds |-> BaseRelevance]
  /\ cache' = <<>>
  /\ searchCache' = <<>>
  /\ calls' = [i \in Slots |-> Idle]
  /\ ret' = NoReturn
  /\ UNCHANGED stored

(***************************************************************************)
(* getSearchSuggestions                                                    *)
(***************************************************************************)
Suggestions(partialQuery, limit) ==
  IF Len(partialQuery) < 2 THEN <<>>
  ELSE LET query == toLowerCase(partialQuery)
           fromKeywords == SelectSeq(keywordIndex, LAMBDA k : includes(k, query))
           titled == SelectSeq(articles, LAMBDA a : includes(titleText(a), query))
           fromTitles == [k \in 1..Len(titled) |-> Corpus[titled[k]].title]
       IN slice(Dedup(fromKeywords \o fromTitles, {}), 0, limit)

GetSearchSuggestions(partialQuery, limit) ==
  /\ isLoaded
  /\ ret' = [op |-> "suggest", partialQuery |-> partialQuery, limit |-> limit,
             value |-> Suggestions(partialQuery, limit)]
  /\ UNCHANGED <<isLoaded, loadPromise, articles, hasTranslations, userFeedback,
                 relevanceScore, cache, searchCache, stored, calls>>

(***************************************************************************)
(* SearchEngine (search.js): performSearch and the handlers that call it.  *)
(* The async functions run as jobs of the microtask queue, first in first  *)
(* out; a handler (an event, a timer, a call of a public method) runs only *)
(* when the queue is empty.                                                *)
(***************************************************************************)
\* jobs from `await this.initialize()` to the continuation once loadPromise
\* is fulfilled: the async function returns the promise (a job to adopt
\* it, a job for its reaction), then the await's own reaction
InitializeTicks == 3

\* the same once loadPromise, adopted while pending, is fulfilled
AfterLoadTicks == 2

\* a continuation that runs n jobs from now
Job(n, k) == [k EXCEPT !.wait = n - 1]

\* performSearch(query) up to its first suspension, with the filter, the
\* page and the language read at the call
StartSearch(query, category, page, language) ==
  /\ issued' = issued + 1
  /\ IF trim(query) = <<>>
     THEN /\ container' = <<>>
          /\ shownBy' = [shownBy EXCEPT !.results = issued + 1]
          /\ UNCHANGED searchHistory
          /\ UNCHANGED <<microtasks, loadWaiters>>
     ELSE LET k == [inv |-> issued + 1, pc |-> "search", wait |-> 0, query |-> query,
                    params |-> [query |-> trim(query), category |-> category,
                                language |-> language,
                                limit |-> resultsPerPage,
                                offset |-> page * resultsPerPage]]
          IN /\ IF isLoaded
                THEN /\ microtasks' = Append(microtasks, Job(InitializeTicks, k))
                     /\ UNCHANGED loadWaiters
                ELSE /\ loadWaiters' = Append(loadWaiters, Job(AfterLoadTicks, k))
                     /\ UNCHANGED microtasks
             /\ UNCHANGED <<container, shownBy, searchHistory>>

\* a handler runs when the job queue is empty
HandlerMayRun == microtasks = <<>>

\* setupEventListeners has run: SearchEngine.initialize calls it after
\* `await window.Database.initialize()`
ListenersInstalled == isLoaded

\* performSearch(query) called by a caller of the public method
PerformSearch(query) ==
  /\ HandlerMayRun
  /\ StartSearch(query, currentFilters, currentPage, currentLanguage)
  /\ UNCHANGED <<currentQuery, currentFilters, currentPage, currentLanguage, savedLanguage, languageInitialized>>
  /\ UNCHANGED pageVars
  /\ ret' = NoReturn
  /\ UNCHANGED dbData

\* the click on a suggested tag
SuggestedTagClick(query) ==
  /\ HandlerMayRun /\ ListenersInstalled
  /\ StartSearch(query, currentFilters, currentPage, currentLanguage)
  /\ inputValue' = query
  /\ UNCHANGED <<currentQuery, currentFilters, currentPage, currentLanguage, savedLanguage, languageInitialized>>
  /\ UNCHANGED <<timers, searchTimeout, timerCount, lastInput, suggestionBox>>
  /\ ret' = NoReturn
  /\ UNCHANGED dbData

\* selectSuggestion(suggestion): the click on an item of the suggestion box
SelectSuggestion(suggestion) ==
  /\ HandlerMayRun /\ ListenersInstalled
  /\ inputValue' = suggestion
  /\ currentQuery' = suggestion
  /\ suggestionBox' = <<>>
  /\ lastInput' = [lastInput EXCEPT !.replaced = TRUE]
  /\ StartSearch(suggestion, currentFilters, currentPage, currentLanguage)
  /\ UNCHANGED <<currentFilters, currentPage, currentLanguage, savedLanguage, languageInitialized>>
  /\ UNCHANGED <<timers, searchTimeout, timerCount>>
  /\ ret' = NoReturn
  /\ UNCHANGED dbData

\* updateFilter('category', value)
UpdateFilter(value) ==
  /\ HandlerMayRun
  /\ currentFilters' = value
  /\ currentPage' = 0
  /\ IF currentQuery # <<>>
     THEN StartSearch(currentQuery, value, 0, currentLanguage)
     ELSE UNCHANGED <<issued, microtasks, loadWaiters, container, shownBy, searchHistory>>
  /\ UNCHANGED <<currentQuery, currentLanguage, savedLanguage, languageInitialized>>
  /\ UNCHANGED pageVars
  /\ ret' = NoReturn
  /\ UNCHANGED dbData

LoadMoreResults ==
  /\ HandlerMayRun /\ ListenersInstalled
  /\ currentPage' = currentPage + 1
  /\ StartSearch(currentQuery, currentFilters, currentPage + 1, currentLanguage)
  /\ UNCHANGED <<currentQuery, currentFilters, currentLanguage, savedLanguage, languageInitialized>>
  /\ UNCHANGED pageVars
  /\ ret' = NoReturn
  /\ UNCHANGED dbData

\* loadPromise fulfilled: its reactions are queued in the order they were
\* registered
LoadResolves(withTranslations) ==
  /\ LoadDatabase(withTranslations)
  /\ microtasks' = microtasks \o loadWaiters
  /\ loadWaiters' = <<>>
  /\ UNCHANGED <<currentQuery, currentFilters, currentPage, currentLanguage, savedLanguage, languageInitialized,
                 issued, container, shownBy, searchHistory>>
  /\ UNCHANGED pageVars

\* data.articles.find(art => art.originalId === article.originalId &&
\* art.language === lang): the positions of the articles found
SiblingsIn(id, lang, dataArticles) ==
  {j \in 1..Len(dataArticles) :
     /\ Corpus[dataArticles[j]].originalId = Corpus[id].originalId
     /\ Corpus[dataArticles[j]].language = lang}

\* find(...) || article
FindOr(id, lang, dataArticles) ==
  LET found == SiblingsIn(id, lang, dataArticles)
  IN IF found = {} THEN id
     ELSE dataArticles[CHOOSE j \in found : \A i \in found : j <= i]

\* createResultCard(article, query) with the display language currentLang:
\* the card, with the articles whose text it shows (shownIn records the
\* display language it was built for)
createResultCard(article, currentLang, dataArticles) ==
  LET originalArticle == FindOr(article.id, LangHr, dataArticles)
      translatedArticle ==
        IF currentLang # LangHr /\ currentLang # Corpus[article.id].language
        THEN FindOr(article.id, currentLang, dataArticles)
        ELSE article.id
      showSideBySide == currentLang # LangHr /\ originalArticle # translatedArticle
  IN [id |-> article.id, shownIn |-> currentLang,
      crossLanguageIndicator |-> crossLanguageMatch(article),
      sections |-> IF showSideBySide THEN <<originalArticle, translatedArticle>>
                   ELSE <<article.id>>,
      labels |-> IF showSideBySide
                 THEN <<LangHr, Corpus[translatedArticle].language>>
                 ELSE <<>>]

\* createResultCard for an article of the loaded file
CreateResultCard(id) ==
  /\ HandlerMayRun
  /\ isLoaded
  /\ \E k \in 1..Len(articles) : articles[k] = id
  /\ ret' = [op |-> "card",
             card |-> createResultCard([id |-> id], currentLanguage, articles)]
  /\ UNCHANGED <<dbData, uiVars, pageVars>>

\* LanguageManager.setLanguage(langCode): the language selector
SetLanguage(langCode) ==
  /\ HandlerMayRun
  /\ currentLanguage' = setLanguage(langCode, currentLanguage)
  /\ savedLanguage' = saveLanguagePreference(langCode, savedLanguage)
  /\ UNCHANGED <<currentQuery, currentFilters, currentPage, issued, microtasks,
                 loadWaiters, container, shownBy, searchHistory, languageInitialized>>
  /\ UNCHANGED pageVars
  /\ ret' = [op |-> "setLanguage", langCode |-> langCode, previous |-> currentLanguage]
  /\ UNCHANGED dbData

\* detectBrowserLanguage: browserLang.split('-')[0].toLowerCase(), or hr
detectBrowserLanguage(browserLang) ==
  LET dash == IF \E i \in 1..Len(browserLang) : browserLang[i] = "-"
              THEN CHOOSE i \in 1..Len(browserLang) :
                     /\ browserLang[i] = "-"
                     /\ \A j \in 1..(i - 1) : browserLang[j] # "-"
              ELSE Len(browserLang) + 1
      langCode == toLowerCase(SubSeq(browserLang, 1, dash - 1))
  IN IF InSeq(langCode, supportedLanguages) THEN langCode ELSE LangHr

\* new LanguageManager() in a browser whose navigator.language is browserLang
NewLanguageManager(browserLang) ==
  /\ HandlerMayRun
  /\ currentLanguage' = detectBrowserLanguage(browserLang)
  /\ languageInitialized' = FALSE
  /\ UNCHANGED <<currentQuery, currentFilters, currentPage, issued, microtasks,
                 loadWaiters, container, shownBy, searchHistory, savedLanguage>>
  /\ UNCHANGED pageVars
  /\ ret' = [op |-> "newLanguageManager", browserLang |-> browserLang]
  /\ UNCHANGED dbData

\* a restore that takes whatever is stored
restoreAnyPreference(savedLang, current) ==
  IF savedLang # <<>> THEN savedLang ELSE current

\* restoreLanguagePreference: currentLanguage after it
restoreLanguagePreference(savedLang, current) ==
  IF savedLang # <<>> /\ InSeq(savedLang, supportedLanguages) THEN savedLang
  ELSE current

\* LanguageManager.initialize: the preference is restored and the language
\* applied with setLanguage
LanguageInitialize ==
  /\ HandlerMayRun
  /\ ~languageInitialized
  /\ LET restored == restoreLanguagePreference(savedLanguage, currentLanguage)
     IN /\ currentLanguage' = setLanguage(restored, restored)
        /\ savedLanguage' = saveLanguagePreference(restored, savedLanguage)
  /\ languageInitialized' = TRUE
  /\ UNCHANGED <<currentQuery, currentFilters, currentPage, issued, microtasks,
                 loadWaiters, container, shownBy, searchHistory>>
  /\ UNCHANGED pageVars
  /\ ret' = [op |-> "languageInitialize", previous |-> currentLanguage,
             savedLang |-> savedLanguage]
  /\ UNCHANGED dbData

\* another script of the origin, or an earlier version of the page, writes
\* the stored preference
PreferenceStored(value) ==
  /\ HandlerMayRun
  /\ savedLanguage' = value
  /\ UNCHANGED <<currentQuery, currentFilters, currentPage, currentLanguage, issued,
                 microtasks, loadWaiters, container, shownBy, searchHistory, languageInitialized>>
  /\ UNCHANGED pageVars
  /\ ret' = NoReturn
  /\ UNCHANGED dbData

\* LanguageManager.autoDetectAndSwitch(searchText)
AutoDetectAndSwitch(searchText) ==
  /\ HandlerMayRun
  /\ currentLanguage' = autoDetectAndSwitch(searchText, currentLanguage)
  /\ savedLanguage' = IF currentLanguage' # currentLanguage
                      THEN saveLanguagePreference(currentLanguage', savedLanguage)
                      ELSE savedLanguage
  /\ UNCHANGED languageInitialized
  /\ ret' = [op |-> "autoDetect", text |-> searchText, previous |-> currentLanguage]
  /\ UNCHANGED <<currentQuery, currentFilters, currentPage, issued, microtasks,
                 loadWaiters, container, shownBy, searchHistory>>
  /\ UNCHANGED pageVars
  /\ UNCHANGED dbData

\* the continuation of performSearch after `await searchArticles(...)`
DisplayJob(k, r) ==
  IF r.status = "ok"
  THEN [inv |-> k.inv, pc |-> "display", wait |-> 0, query |-> k.query,
        status |-> "ok", value |-> r.value]
  ELSE [inv |-> k.inv, pc |-> "display", wait |-> 0, query |-> k.query,
        status |-> "threw"]

\* addToSearchHistory: the query is dropped where it stands, put first, and
\* the list cut to maxHistoryItems
addToSearchHistory(history, query) ==
  IF trim(query) = <<>> THEN history
  ELSE slice(<<query>> \o SelectSeq(history, LAMBDA item : item # query),
             0, maxHistoryItems)

\* performSearch after the await: displayResults empties the container on
\* page 0 and appends the cards of the results, then the suggestions are
\* hidden; a rejected search only shows a toast
DisplayResults(k) ==
  IF k.status = "ok"
  THEN /\ container' =
            (IF currentPage = 0 THEN <<>> ELSE container)
              \o (IF k.value.total > 0
                  THEN [i \in 1..Len(k.value.results) |->
                          createResultCard(k.value.results[i], currentLanguage, articles)]
                  ELSE <<>>)
       /\ shownBy' = [shownBy EXCEPT !.results = k.inv]
       /\ suggestionBox' = <<>>
  ELSE /\ shownBy' = [shownBy EXCEPT !.error = k.inv]
       /\ UNCHANGED <<container, suggestionBox>>

\* the job at the head of the microtask queue
RunMicrotask ==
  /\ microtasks # <<>>
  /\ LET k == Head(microtasks)
         rest == Tail(microtasks)
     IN IF k.wait > 0
        THEN /\ microtasks' = Append(rest, [k EXCEPT !.wait = @ - 1])
             /\ UNCHANGED <<articles, cache, searchCache, ret, container, shownBy, searchHistory,
                            suggestionBox>>
        ELSE IF k.pc = "search"
        THEN /\ IF cacheKey(k.params) \in DOMAIN searchCache
                THEN /\ ret' = [op |-> "search", params |-> k.params, status |-> "ok",
                                value |-> searchCache[cacheKey(k.params)], hit |-> TRUE]
                     /\ microtasks' = Append(rest, DisplayJob(k, ret'))
                     /\ UNCHANGED <<articles, cache, searchCache>>
                ELSE IF k.params.category = CatAll
                THEN /\ ComputeAndCache(k.params, [kind |-> "data"])
                     /\ microtasks' = Append(rest, DisplayJob(k, ret'))
                ELSE /\ microtasks' = Append(rest,
                          Job(InitializeTicks, [k EXCEPT !.pc = "category"]))
                     /\ ret' = NoReturn
                     /\ UNCHANGED <<articles, cache, searchCache>>
             /\ UNCHANGED <<container, shownBy, searchHistory, suggestionBox>>
        ELSE IF k.pc = "category"
        THEN /\ LET c == k.params.category IN
                IF c \in DOMAIN cache
                THEN /\ microtasks' = Append(rest,
                          [inv |-> k.inv, pc |-> "compute", wait |-> 0, query |-> k.query,
                           params |-> k.params,
                           arr |-> [kind |-> "cached", category |-> c]])
                     /\ cache' = cache
                ELSE /\ microtasks' = Append(rest,
                          [inv |-> k.inv, pc |-> "compute", wait |-> 0, query |-> k.query,
                           params |-> k.params,
                           arr |-> [kind |-> "copy", copy |-> categoryIndex(c)]])
                     /\ cache' = (c :> categoryIndex(c)) @@ cache
             /\ ret' = NoReturn
             /\ UNCHANGED <<articles, searchCache, container, shownBy, searchHistory, suggestionBox>>
        ELSE IF k.pc = "compute"
        THEN /\ ComputeAndCache(k.params, k.arr)
             /\ microtasks' = Append(rest, DisplayJob(k, ret'))
             /\ UNCHANGED <<container, shownBy, searchHistory, suggestionBox>>
        ELSE IF k.pc = "display"
        THEN /\ DisplayResults(k)
             /\ searchHistory' = IF k.status = "ok"
                                 THEN addToSearchHistory(searchHistory, k.query)
                                 ELSE searchHistory
             /\ microtasks' = rest
             /\ ret' = NoReturn
             /\ UNCHANGED <<articles, cache, searchCache>>
        ELSE \* updateSearchSuggestions after `await getSearchSuggestions`
             /\ suggestionBox' = Suggestions(k.query, suggestionCount)
             /\ ret' = [op |-> "suggest", partialQuery |-> k.query,
                        limit |-> suggestionCount,
                        value |-> Suggestions(k.query, suggestionCount)]
             /\ microtasks' = rest
             /\ UNCHANGED <<articles, cache, searchCache, container, shownBy, searchHistory>>
  /\ UNCHANGED <<isLoaded, loadPromise, hasTranslations, userFeedback, relevanceScore, stored, calls>>
  /\ UNCHANGED <<currentQuery, currentFilters, currentPage, currentLanguage, savedLanguage, languageInitialized,
                 issued, loadWaiters>>
  /\ UNCHANGED <<timers, searchTimeout, timerCount, inputValue, lastInput>>

(***************************************************************************)
(* SearchEngine: the search box, its timers and the suggestion box.  Time  *)
(* advances in steps of TimeStep; a timer fires when its time is up.       *)
(***************************************************************************)
TimeStep == 50

\* a handler that leaves the timer it replaces pending
KeepTimeout(ts, id) == ts

\* if (this.searchTimeout) clearTimeout(this.searchTimeout)
ClearTimeout(ts, id) == IF id # 0 THEN {t \in ts : t.id # id} ELSE ts

\* updateSearchSuggestions(query) up to its await
StartSuggestions(query) ==
  IF Len(query) < 2
  THEN /\ suggestionBox' = <<>>
       /\ UNCHANGED microtasks
  ELSE /\ microtasks' = Append(microtasks,
            Job(InitializeTicks + 1, [pc |-> "suggest", wait |-> 0, query |-> query]))
       /\ UNCHANGED suggestionBox

\* the input event on the search box
HandleSearchInput(value) ==
  /\ HandlerMayRun /\ ListenersInstalled
  /\ LET q == trim(value)
         suggest == IF Len(q) >= 2
                    THEN {[id |-> timerCount + 1, kind |-> "suggest",
                           left |-> suggestionDelay]}
                    ELSE {}
         id == timerCount + Cardinality(suggest) + 1
     IN /\ timers' = ClearTimeout(timers, searchTimeout) \cup suggest
                       \cup {[id |-> id, kind |-> "search", left |-> debounceDelay]}
        /\ searchTimeout' = id
        /\ timerCount' = id
        /\ currentQuery' = q
  /\ inputValue' = value
  /\ lastInput' = [value |-> value, age |-> 0, replaced |-> FALSE,
                   burst |-> IF lastInput.age < debounceDelay
                             THEN lastInput.burst + 1 ELSE 1]
  /\ ret' = NoReturn
  /\ UNCHANGED <<currentFilters, currentPage, currentLanguage, savedLanguage, languageInitialized, issued, microtasks,
                 loadWaiters, container, shownBy, searchHistory, suggestionBox>>
  /\ UNCHANGED dbData

\* getCurrentLanguage() that answers with the language found before the
\* detection ran
getLanguageBeforeDetect(beforeDetect, afterDetect) == beforeDetect

\* getCurrentLanguage() in performSearch, which the timer callback calls
\* after autoDetectAndSwitch has returned
getCurrentLanguage(beforeDetect, afterDetect) == afterDetect

\* a timer whose time is up: the debounced search, or the suggestions
FireTimer(t) ==
  /\ HandlerMayRun
  /\ t \in timers /\ t.left = 0
  /\ timers' = timers \ {t}
  /\ IF t.kind = "search"
     THEN IF currentQuery # <<>>
          THEN /\ currentLanguage' = autoDetectAndSwitch(currentQuery, currentLanguage)
               /\ savedLanguage' = IF currentLanguage' # currentLanguage
                                   THEN saveLanguagePreference(currentLanguage', savedLanguage)
                                   ELSE savedLanguage
               /\ UNCHANGED languageInitialized
               /\ StartSearch(currentQuery, currentFilters, currentPage,
                              getCurrentLanguage(currentLanguage, currentLanguage'))
               /\ ret' = [op |-> "timer", action |-> "performSearch",
                          query |-> currentQuery, previous |-> currentLanguage]
               /\ UNCHANGED suggestionBox
          ELSE /\ container' = <<>>
               /\ shownBy' = [shownBy EXCEPT !.results = 0]
               /\ UNCHANGED searchHistory
               /\ ret' = [op |-> "timer", action |-> "clearResults"]
               /\ UNCHANGED <<currentLanguage, savedLanguage, languageInitialized, issued, microtasks, loadWaiters,
                              suggestionBox>>
     ELSE /\ StartSuggestions(currentQuery)
          /\ ret' = NoReturn
          /\ UNCHANGED <<currentLanguage, savedLanguage, languageInitialized, issued, loadWaiters, container, shownBy, searchHistory>>
  /\ UNCHANGED <<currentQuery, currentFilters, currentPage>>
  /\ UNCHANGED <<searchTimeout, timerCount, inputValue, lastInput>>
  /\ UNCHANGED dbData

\* time passes while no timer is due
Tick ==
  /\ HandlerMayRun
  /\ \A t \in timers : t.left > 0
  /\ timers' = {[t EXCEPT !.left = @ - TimeStep] : t \in timers}
  /\ lastInput' = [lastInput EXCEPT !.age = Min(@ + TimeStep, debounceDelay)]
  /\ ret' = NoReturn
  /\ UNCHANGED <<searchTimeout, timerCount, inputValue, suggestionBox>>
  /\ UNCHANGED uiVars
  /\ UNCHANGED dbData

\* clearSearch: the click on the clear button
ClearSearch ==
  /\ HandlerMayRun /\ ListenersInstalled
  /\ inputValue' = <<>>
  /\ currentQuery' = <<>>
  /\ currentPage' = 0
  /\ container' = <<>>
  /\ shownBy' = [shownBy EXCEPT !.results = 0]
  /\ UNCHANGED searchHistory
  /\ suggestionBox' = <<>>
  /\ lastInput' = [lastInput EXCEPT !.replaced = TRUE]
  /\ ret' = NoReturn
  /\ UNCHANGED <<currentFilters, currentLanguage, savedLanguage, languageInitialized, issued, microtasks, loadWaiters>>
  /\ UNCHANGED <<timers, searchTimeout, timerCount>>
  /\ UNCHANGED dbData

\* textContent of a suggestion item: the suggestion between the white space
\* of the item's markup
ItemText(suggestion) == <<" ">> \o suggestion \o <<" ">>

\* handleSearchKeydown for Enter, with the item the arrow keys have made
\* active (0 for none); nothing happens while the suggestion box is hidden
EnterKey(activeIndex) ==
  /\ HandlerMayRun /\ ListenersInstalled
  /\ suggestionBox # <<>>
  /\ activeIndex \in 0..Len(suggestionBox)
  /\ IF activeIndex > 0
     THEN SelectSuggestion(ItemText(suggestionBox[activeIndex]))
     ELSE /\ currentQuery # <<>>
          /\ StartSearch(currentQuery, currentFilters, currentPage, currentLanguage)
          /\ suggestionBox' = <<>>
          /\ ret' = NoReturn
          /\ UNCHANGED <<currentQuery, currentFilters, currentPage, currentLanguage, savedLanguage, languageInitialized>>
          /\ UNCHANGED <<timers, searchTimeout, timerCount, inputValue, lastInput>>
          /\ UNCHANGED dbData

\* the click on an item of the suggestion box
SuggestionClick(i) ==
  /\ i \in 1..Len(suggestionBox)
  /\ SelectSuggestion(suggestionBox[i])

\* the search box gains focus: showSearchSuggestions
FocusInput ==
  /\ HandlerMayRun /\ ListenersInstalled
  /\ Len(currentQuery) >= 2
  /\ StartSuggestions(currentQuery)
  /\ ret' = NoReturn
  /\ UNCHANGED <<currentQuery, currentFilters, currentPage, currentLanguage, savedLanguage, languageInitialized,
                 issued, loadWaiters, container, shownBy, searchHistory>>
  /\ UNCHANGED <<timers, searchTimeout, timerCount, inputValue, lastInput>>
  /\ UNCHANGED dbData

(***************************************************************************)
(* RelevanceScoring: feedback processing, adaptive learning, the profile.  *)
(* Numbers are rationals [num, den]; den = 0 stands for NaN.  A field      *)
(* that holds null or an object holds <<>> for null.                       *)
(***************************************************************************)
NaN == [num |-> 0, den |-> 0]
IsNaN(x) == x.den = 0
RatTimes(x, y) ==
  IF IsNaN(x) \/ IsNaN(y) THEN NaN ELSE [num |-> x.num * y.num, den |-> x.den * y.den]
RatPlus(x, y) ==
  IF IsNaN(x) \/ IsNaN(y) THEN NaN
  ELSE [num |-> x.num * y.den + y.num * x.den, den |-> x.den * y.den]
\* x / y for y > 0
RatOver(x, y) ==
  IF IsNaN(x) \/ IsNaN(y) THEN NaN ELSE [num |-> x.num * y.den, den |-> x.den * y.num]
\* x > 0, false for NaN
Positive(x) == ~IsNaN(x) /\ x.num > 0

RECURSIVE RatSum(_)
RatSum(xs) == IF xs = <<>> THEN [num |-> 0, den |-> 1] ELSE RatPlus(Head(xs), RatSum(Tail(xs)))

ClampTenths(c) == IF c < 0 THEN 0 ELSE IF c > 10 THEN 10 ELSE c

\* calculateFeedbackConfidence, in tenths
calculateFeedbackConfidence(s, now) ==
  LET dwell == IF s.currentResultStartTime # 0
               THEN (IF now - s.currentResultStartTime > 5000 THEN 3
                     ELSE IF now - s.currentResultStartTime > 2000 THEN 2 ELSE 0)
               ELSE 0
      frequent == IF s.feedbackFrequency > 5 THEN 1 ELSE 0
      quick == IF s.currentSearchContext # <<>>
                  /\ now - s.currentSearchContext.timestamp < 2000
               THEN 2 ELSE 0
  IN ClampTenths(5 + dwell + frequent - quick)

RECURSIVE Power(_, _)
Power(b, n) == IF n = 0 THEN 1 ELSE b * Power(b, n - 1)

\* Math.pow(this.decayFactor, age / day) with decayFactor 0.95 = 19/20,
\* for ages of whole days (an age within a session is under a day)
Decay(age) == [num |-> Power(19, age \div DayMs), den |-> Power(20, age \div DayMs)]

\* feedback.weight * Math.pow(decayFactor, (Date.now() - feedback.timestamp) / day):
\* a record without a timestamp gives Date.now() - undefined, which is NaN
DecayedWeight(fb, now) ==
  IF "timestamp" \in DOMAIN fb
  THEN RatTimes([num |-> fb.weight, den |-> 10], Decay(now - fb.timestamp))
  ELSE NaN

\* performAdaptiveLearning: adaptiveScores after it
performAdaptiveLearning(adaptiveScores, articleId, feedbackHistory, now) ==
  LET decayed == [i \in 1..Len(feedbackHistory) |-> DecayedWeight(feedbackHistory[i], now)]
      totalWeight == RatSum(decayed)
      weightedSum == RatSum([i \in 1..Len(feedbackHistory) |->
                        RatTimes([num |-> feedbackHistory[i].value, den |-> 1], decayed[i])])
  IN IF Positive(totalWeight)
     THEN (articleId :> RatOver(weightedSum, totalWeight)) @@ adaptiveScores
     ELSE adaptiveScores

\* the words of a query that count as keywords
KeywordsOf(query) ==
  SelectSeq(splitWs(toLowerCase(query)), LAMBDA w : Len(w) > 2)

\* names that every object literal answers to without owning them
PrototypeKeys ==
  { <<"c", "o", "n", "s", "t", "r", "u", "c", "t", "o", "r">>,
    <<"_", "_", "p", "r", "o", "t", "o", "_", "_">>,
    <<"t", "o", "S", "t", "r", "i", "n", "g">> }

\* obj[key] is truthy: an own entry, or a member inherited from Object.prototype
HasKey(obj, key) == key \in DOMAIN obj \/ key \in PrototypeKeys

\* An inherited member is truthy, so no entry is created for it and the
\* increment lands on the inherited object, not on the table.
Tally(counts, key, isHelpful) ==
  LET old == IF key \in DOMAIN counts THEN counts[key]
             ELSE [helpful |-> 0, notHelpful |-> 0]
  IN IF key \notin DOMAIN counts /\ key \in PrototypeKeys THEN counts
     ELSE (key :> CountFeedback(old, isHelpful)) @@ counts

RECURSIVE TallyAll(_, _, _)
TallyAll(counts, keys, isHelpful) ==
  IF keys = <<>> THEN counts
  ELSE TallyAll(Tally(counts, Head(keys), isHelpful), Tail(keys), isHelpful)

\* updateUserProfile: the profile of the current user after it
updateUserProfile(profile, feedback) ==
  LET old == IF profile # <<>> THEN profile
             ELSE [categories |-> <<>>, keywords |-> <<>>,
                   feedbackPatterns |-> [helpfulCount |-> 0, notHelpfulCount |-> 0,
                                         totalFeedback |-> 0]]
      ctx == feedback.searchContext
  IN [feedbackPatterns |->
        [helpfulCount |-> old.feedbackPatterns.helpfulCount
                            + (IF feedback.isHelpful THEN 1 ELSE 0),
         notHelpfulCount |-> old.feedbackPatterns.notHelpfulCount
                            + (IF feedback.isHelpful THEN 0 ELSE 1),
         totalFeedback |-> old.feedbackPatterns.totalFeedback + 1],
      categories |->
        IF ctx # <<>> /\ ctx.category # <<>>
        THEN Tally(old.categories, ctx.category, feedback.isHelpful)
        ELSE old.categories,
      keywords |->
        IF ctx # <<>> /\ ctx.query # <<>>
        THEN TallyAll(old.keywords, KeywordsOf(ctx.query), feedback.isHelpful)
        ELSE old.keywords]

\* processFeedback({articleId, isHelpful})
ProcessFeedback(articleId, isHelpful) ==
  LET feedback == [articleId |-> articleId, isHelpful |-> isHelpful,
                   searchContext |-> scoring.currentSearchContext,
                   timestamp |-> dateNow,
                   confidence |-> calculateFeedbackConfidence(scoring, dateNow)]
      weightedFeedback == [value |-> IF isHelpful THEN 1 ELSE -1,
                           weight |-> feedback.confidence,
                           context |-> feedback.searchContext]
      history == (IF articleId \in DOMAIN scoring.articleFeedback
                  THEN scoring.articleFeedback[articleId] ELSE <<>>)
                   \o <<weightedFeedback>>
  IN /\ scoring' =
          [scoring EXCEPT
             !.sessionFeedback = Append(@, feedback),
             !.feedbackFrequency = @ + 1,
             !.articleFeedback = (articleId :> history) @@ @,
             !.adaptiveScores =
                IF Len(history) >= minFeedbackThreshold
                THEN performAdaptiveLearning(@, articleId, history, dateNow)
                ELSE @,
             !.profile = updateUserProfile(@, feedback)]
     /\ UNCHANGED dateNow
     /\ UNCHANGED <<dbVars, uiVars, pageVars, shellVars>>

Bump(counts, key) ==
  (key :> (IF key \in DOMAIN counts THEN counts[key] ELSE 0) + 1) @@ counts

RECURSIVE BumpAll(_, _)
BumpAll(counts, keys) ==
  IF keys = <<>> THEN counts ELSE BumpAll(Bump(counts, Head(keys)), Tail(keys))

\* updateSearchPatterns: the keys `length_...`, `lang_...`, `keyword_...`
updateSearchPatterns(patterns, query) ==
  LET lengthCategory == IF Len(query) < 10 THEN "short"
                        ELSE IF Len(query) < 30 THEN "medium" ELSE "long"
      words == KeywordsOf(query)
  IN BumpAll(patterns,
       << <<"length", lengthCategory>>,
          <<"lang", detectLanguage(query, currentLanguage)>> >>
         \o [i \in 1..Len(words) |-> <<"keyword", words[i]>>])

\* trackSearch(searchData)
\* After a load the pattern tables are plain objects and patterns.set throws
\* before the search context is stored.
\* patterns.set is not a function: searchPatterns is a plain object, and
\* updateSearchPatterns throws before anything is tallied
trackSearchThrows(s) == s.plainMetrics

TrackSearch(query, category) ==
  /\ scoring' =
       IF trackSearchThrows(scoring) THEN scoring
       ELSE
       [scoring EXCEPT
          !.searchPatterns = updateSearchPatterns(@, query),
          !.categoryPreferences = Bump(@, category),
          !.currentSearchContext =
             [query |-> query, category |-> category,
              language |-> currentLanguage, timestamp |-> dateNow]]
  /\ UNCHANGED dateNow
  /\ UNCHANGED <<dbVars, uiVars, pageVars, shellVars>>

\* trackResultInteraction: a click inside a result card
TrackResultInteraction ==
  /\ scoring' = [scoring EXCEPT !.currentResultStartTime = dateNow]
  /\ UNCHANGED dateNow
  /\ UNCHANGED <<dbVars, uiVars, pageVars, shellVars>>

\* data.helpful / (data.helpful + data.notHelpful + 1) for data = table[key];
\* the fields of an inherited member are undefined and the quotient is NaN
Affinity(table, key) ==
  IF key \in DOMAIN table
  THEN [num |-> table[key].helpful,
        den |-> table[key].helpful + table[key].notHelpful + 1]
  ELSE NaN

\* Math.max(0, Math.min(3, x)); NaN passes through both
ClampScore(x) ==
  IF IsNaN(x) THEN NaN
  ELSE IF RatLT([num |-> 3, den |-> 1], x) THEN [num |-> 3, den |-> 1]
  ELSE IF RatLT(x, [num |-> 0, den |-> 1]) THEN [num |-> 0, den |-> 1]
  ELSE x

\* calculatePersonalizedScore(articleId, searchContext)
calculatePersonalizedScore(s, articleId, searchContext) ==
  IF s.profile = <<>> THEN [num |-> 1, den |-> 1]
  ELSE
    LET profile == s.profile
        base == [num |-> 1, den |-> 1]
        withCategory ==
          IF searchContext.category # <<>>
             /\ HasKey(profile.categories, searchContext.category)
          THEN RatPlus(base, RatTimes(Affinity(profile.categories, searchContext.category),
                                      [num |-> 3, den |-> 10]))
          ELSE base
        known == SelectSeq(KeywordsOf(searchContext.query),
                           LAMBDA w : HasKey(profile.keywords, w))
        keywordBonus == RatSum([i \in 1..Len(known) |-> Affinity(profile.keywords, known[i])])
        withKeywords ==
          IF searchContext.query # <<>> /\ Len(known) > 0
          THEN RatPlus(withCategory,
                       RatTimes(RatOver(keywordBonus, [num |-> Len(known), den |-> 1]),
                                [num |-> 2, den |-> 10]))
          ELSE withCategory
        withAdaptive ==
          IF articleId \in DOMAIN s.adaptiveScores
          THEN RatPlus(withKeywords, RatTimes(s.adaptiveScores[articleId],
                                              [num |-> 4, den |-> 10]))
          ELSE withKeywords
    IN ClampScore(withAdaptive)

CalculatePersonalizedScore(articleId, searchContext) ==
  /\ ret' = [op |-> "personalized", articleId |-> articleId,
             searchContext |-> searchContext,
             value |-> calculatePersonalizedScore(scoring, articleId, searchContext)]
  /\ UNCHANGED <<dbData, uiVars, pageVars, scoringVars, shellVars>>

\* JSON.stringify(this.behaviorMetrics): the three Maps are written as {},
\* the feedback counter as a number
StringifyBehavior(s) == [feedbackFrequency |-> s.feedbackFrequency]

\* saveUserData: the profile, a record of counters, is written as it stands;
\* nothing is written for a user without a profile
saveUserData(s) ==
  [s EXCEPT
     !.storedProfile = IF s.profile # <<>> THEN s.profile ELSE @,
     !.storedBehavior = StringifyBehavior(s)]

SaveUserData ==
  /\ scoring' = saveUserData(scoring)
  /\ UNCHANGED dateNow
  /\ UNCHANGED <<dbVars, uiVars, pageVars, shellVars>>

\* loadUserData: the stored profile replaces the profile in memory, the stored
\* behaviour is spread over behaviorMetrics
loadUserData(s) ==
  LET withProfile ==
        IF s.storedProfile # <<>>
        THEN [s EXCEPT !.profile = s.storedProfile]
        ELSE s
  IN IF s.storedBehavior # <<>>
     THEN [withProfile EXCEPT
             !.feedbackFrequency = s.storedBehavior.feedbackFrequency,
             !.searchPatterns = <<>>,
             !.categoryPreferences = <<>>,
             !.plainMetrics = TRUE]
     ELSE withProfile

LoadUserData ==
  /\ scoring' = loadUserData(scoring)
  /\ UNCHANGED dateNow
  /\ UNCHANGED <<dbVars, uiVars, pageVars, shellVars>>

\* resetUserData: storage and memory are cleared and a fresh user id is drawn,
\* under which nothing is stored
ResetUserData ==
  /\ scoring' =
       [scoring EXCEPT
          !.storedProfile = <<>>,
          !.storedBehavior = <<>>,
          !.profile = <<>>,
          !.searchPatterns = <<>>,
          !.categoryPreferences = <<>>,
          !.plainMetrics = FALSE,
          !.feedbackFrequency = 0,
          !.adaptiveScores = <<>>]
  /\ UNCHANGED dateNow
  /\ UNCHANGED <<dbVars, uiVars, pageVars, shellVars>>

\* the granularity of the clock
ClockStep == 2600

\* time passes
ClockAdvances ==
  /\ dateNow' = dateNow + ClockStep
  /\ UNCHANGED scoring
  /\ UNCHANGED <<dbVars, uiVars, pageVars, shellVars>>

\* time passes: Date.now() is ms later
TimePasses(ms) ==
  /\ dateNow' = dateNow + ms
  /\ UNCHANGED scoring
  /\ UNCHANGED <<dbVars, uiVars, pageVars, shellVars>>

(***************************************************************************)
(* ThemeManager (theme-toggle.js).  theme.applying is the setTheme call    *)
(* suspended in applyTheme: at the 10 ms timer ("ready") or at the timer of *)
(* transitionDuration ("transition").                                      *)
(***************************************************************************)
Themes == {"light", "dark"}

\* names that this.themes, an object literal, inherits from Object.prototype
InheritedThemeNames == {"constructor", "toString"}

\* this.themes[themeName] is truthy
themesHas(themeName) == themeName \in Themes \cup InheritedThemeNames

\* theme.dataTheme as setAttribute writes it: a function inherited from
\* Object.prototype has no dataTheme
dataThemeOf(themeName) ==
  IF themeName \in Themes THEN themeName ELSE "undefined"

ThemeFrame == UNCHANGED <<dbData, uiVars, pageVars, scoringVars, engine>>

\* restoreThemePreference: the theme to start with
restoreThemePreference(saved, prefersDarkMode) ==
  IF saved # "" /\ themesHas(saved) THEN saved
  ELSE IF prefersDarkMode THEN "dark" ELSE "light"

\* initialize, with the answer of the prefers-color-scheme media query
ThemeInitialize(matches) ==
  /\ ~theme.isInitialized
  /\ LET restored == restoreThemePreference(theme.saved, matches)
     IN theme' = [theme EXCEPT !.prefersDarkMode = matches,
                               !.currentTheme = restored,
                               !.dataTheme = dataThemeOf(restored),
                               !.isInitialized = TRUE]
  /\ ret' = [op |-> "themeInitialize"]
  /\ ThemeFrame

\* setTheme up to the first await of applyTheme: the theme object after it
setTheme(t, themeName, isAutomatic) ==
  IF ~themesHas(themeName) THEN t
  ELSE IF t.isTransitioning THEN t
  ELSE [t EXCEPT !.currentTheme = themeName,
                 !.isTransitioning = TRUE,
                 !.applying = [at |-> "ready", previousTheme |-> t.currentTheme,
                               themeName |-> themeName, isAutomatic |-> isAutomatic]]

\* toggleTheme
ToggleTheme ==
  /\ theme' = setTheme(theme, IF theme.currentTheme = "light" THEN "dark" ELSE "light",
                       FALSE)
  /\ ret' = [op |-> "toggleTheme", before |-> theme.currentTheme]
  /\ ThemeFrame

\* the themeChangeRequested event
ThemeChangeRequested(themeName) ==
  /\ theme.isInitialized
  /\ theme' = setTheme(theme, themeName, FALSE)
  /\ ret' = [op |-> "setTheme", before |-> theme.currentTheme]
  /\ ThemeFrame

\* the change event of the media query
SystemPreferenceChange(matches) ==
  /\ theme.isInitialized
  /\ theme' = IF theme.saved = ""
              THEN setTheme([theme EXCEPT !.prefersDarkMode = matches],
                            IF matches THEN "dark" ELSE "light", TRUE)
              ELSE [theme EXCEPT !.prefersDarkMode = matches]
  /\ ret' = [op |-> "preferenceChange", before |-> theme.currentTheme]
  /\ ThemeFrame

\* applyTheme after its first timer: the attribute is written
ThemeReady ==
  /\ theme.applying # <<>>
  /\ theme.applying.at = "ready"
  /\ theme' = [theme EXCEPT !.dataTheme = dataThemeOf(theme.applying.themeName),
                            !.applying.at = "transition"]
  /\ ret' = NoReturn
  /\ ThemeFrame

\* applyTheme after its second timer, and the rest of setTheme
ThemeTransitionEnds ==
  /\ theme.applying # <<>>
  /\ theme.applying.at = "transition"
  /\ theme' = [theme EXCEPT !.isTransitioning = FALSE,
                            !.applying = <<>>,
                            !.saved = IF theme.applying.isAutomatic THEN @
                                      ELSE theme.currentTheme]
  /\ ret' = NoReturn
  /\ ThemeFrame

(***************************************************************************)
(* Specifications                                                          *)
(***************************************************************************)
Suspended == {i \in Slots : calls[i] # Idle}

TotalFeedback ==
  SumSeq([k \in 1..Len(FileOrder) |->
            userFeedback[FileOrder[k]].helpful + userFeedback[FileOrder[k]].notHelpful])

\* a search that may add an envelope starts only while there is room for it
RoomFor(p) ==
  \/ cacheKey(p) \in DOMAIN searchCache
  \/ Cardinality(DOMAIN searchCache) + Cardinality(Suspended) < MaxCache

Next ==
  \/ DatabaseOnly /\ \E t \in BOOLEAN : LoadDatabase(t)
  \/ DatabaseOnly /\ \E p \in SearchParams : RoomFor(p) /\ SearchArticles(p)
  \/ DatabaseOnly /\ \E i \in Slots : GetArticlesByCategory(i)
  \/ DatabaseOnly /\ \E i \in Slots : SearchCompute(i)
  \/ DatabaseOnly /\ \E a \in FeedbackIds, h \in BOOLEAN :
       TotalFeedback < MaxFeedback /\ UpdateRelevanceScore(a, h, FALSE)
  \/ DatabaseOnly /\ \E q \in PartialQueries, l \in SuggestLimits : GetSearchSuggestions(q, l)

Spec == Init /\ [][Next]_vars

\* searches interleaved with feedback: the empty query and a text query
CacheParams ==
  {p \in SearchParams : p.query \in { <<>>, <<"a">> } /\ p.category \in {CatAll, CatW}}

NextCache ==
  \/ DatabaseOnly /\ \E t \in BOOLEAN : LoadDatabase(t)
  \/ DatabaseOnly /\ \E p \in CacheParams : RoomFor(p) /\ SearchArticles(p)
  \/ DatabaseOnly /\ \E i \in Slots : GetArticlesByCategory(i)
  \/ DatabaseOnly /\ \E i \in Slots : SearchCompute(i)
  \/ DatabaseOnly /\ \E a \in ArticleIds, h \in BOOLEAN :
       TotalFeedback < MaxFeedback /\ UpdateRelevanceScore(a, h, FALSE)

SpecCache == Init /\ [][NextCache]_vars

\* the queries that are empty once trimmed, interleaved with feedback
EmptyParams == {p \in SearchParams : trim(p.query) = <<>>}

NextEmpty ==
  \/ DatabaseOnly /\ LoadDatabase(FALSE)
  \/ DatabaseOnly /\ \E p \in EmptyParams : RoomFor(p) /\ SearchArticles(p)
  \/ DatabaseOnly /\ \E i \in Slots : GetArticlesByCategory(i)
  \/ DatabaseOnly /\ \E i \in Slots : SearchCompute(i)
  \/ DatabaseOnly /\ \E a \in ArticleIds, h \in BOOLEAN :
       TotalFeedback < MaxFeedback /\ UpdateRelevanceScore(a, h, FALSE)

SpecEmpty == Init /\ [][NextEmpty]_vars

\* feedback only, to a greater depth
NextFeedback ==
  \/ DatabaseOnly /\ \E t \in BOOLEAN : LoadDatabase(t)
  \/ DatabaseOnly /\ \E a \in FeedbackIds, h \in BOOLEAN, x \in BOOLEAN :
       TotalFeedback < MaxEvents /\ UpdateRelevanceScore(a, h, x)

SpecFeedback == Init /\ [][NextFeedback]_vars

\* the empty query and a query that two articles match equally, interleaved
\* with feedback that can raise a score and bring it back
RankParams == {p \in [query : { <<>>, <<"b">> }, category : Categories,
                      language : Languages, limit : Limits, offset : {0}] : TRUE}

NextRank ==
  \/ DatabaseOnly /\ LoadDatabase(FALSE)
  \/ DatabaseOnly /\ \E p \in RankParams : RoomFor(p) /\ SearchArticles(p)
  \/ DatabaseOnly /\ \E i \in Slots : GetArticlesByCategory(i)
  \/ DatabaseOnly /\ \E i \in Slots : SearchCompute(i)
  \/ DatabaseOnly /\ \E a \in ArticleIds, h \in BOOLEAN :
       TotalFeedback < MaxRankFeedback /\ UpdateRelevanceScore(a, h, FALSE)

SpecRank == Init /\ [][NextRank]_vars

\* the handlers of the search page and the public methods of SearchEngine,
\* called before and after the database is loaded
UIQueries == { <<"a">>, <<"b">>, <<"(">>, <<" ">> }
UICategories == {CatAll, CatW}

NextOverlap ==
  \/ NoScoring /\ LoadResolves(FALSE)
  \/ NoScoring /\ \E q \in UIQueries : issued < MaxSearches /\ PerformSearch(q)
  \/ NoScoring /\ \E q \in UIQueries : issued < MaxSearches /\ SuggestedTagClick(q)
  \/ NoScoring /\ \E c \in UICategories : issued < MaxSearches /\ UpdateFilter(c)
  \/ NoScoring /\ issued < MaxSearches /\ currentPage < MaxPage /\ LoadMoreResults
  \/ NoScoring /\ RunMicrotask

SpecOverlap == Init /\ [][NextOverlap]_vars

\* typing in the search box, the timers, the suggestion box and the clock
InputValues == { <<>>, <<"b">>, <<" ", "b", " ">>, <<"a", " ", "b">> }

NextDebounce ==
  \/ NoScoring /\ LoadResolves(FALSE)
  \/ NoScoring /\ \E v \in InputValues : timerCount + 2 <= MaxTimers /\ HandleSearchInput(v)
  \/ NoScoring /\ \E t \in timers : FireTimer(t)
  \/ NoScoring /\ Tick
  \/ NoScoring /\ ClearSearch
  \/ NoScoring /\ \E i \in 0..suggestionCount : issued < MaxSearches /\ EnterKey(i)
  \/ NoScoring /\ \E i \in 1..suggestionCount : issued < MaxSearches /\ SuggestionClick(i)
  \/ NoScoring /\ FocusInput
  \/ NoScoring /\ RunMicrotask

SpecDebounce == Init /\ [][NextDebounce]_vars


(***************************************************************************)
(* Properties                                                              *)
(***************************************************************************)
SearchReturned == ret.op = "search" /\ ret.status = "ok"

\* relevanceScore of a result as a reader of the envelope sees it: the
\* copy's own field, or the field of the article object it refers to
ResultRelevance(r) == IF r.copy THEN r.relevanceScore ELSE relevanceScore[r.id]

ResultRank(r) ==
  IF r.copy THEN CombinedScore(r.searchScore, relevanceScore[r.id])
  ELSE relevanceScore[r.id]

\* C1: in every interleaving of searchArticles and updateRelevanceScore,
\* searchCache holds no envelope computed from relevanceScore values that an
\* update has since replaced: every cached result carries the current
\* relevanceScore of its article and every cached list is ranked by the
\* current scores.
C1_NoStaleEnvelope ==
  \A key \in DOMAIN searchCache :
    LET rs == searchCache[key].results IN
      /\ \A k \in 1..Len(rs) :
           rs[k].copy => rs[k].relevanceScore = relevanceScore[rs[k].id]
      /\ \A k \in 1..(Len(rs) - 1) :
           ~RatLT(ResultRank(rs[k]), ResultRank(rs[k + 1]))

\* a search computed after feedback: its cached copy carries a score that
\* only an update can have set
C1_Witness ==
  /\ TotalFeedback > 0
  /\ \E key \in DOMAIN searchCache :
       \E k \in 1..Len(searchCache[key].results) :
         /\ searchCache[key].results[k].copy
         /\ ~RatEQ(searchCache[key].results[k].relevanceScore, BaseRelevance)


\* the array a search for category c would work on now
CandidateArray(c) ==
  IF c = CatAll THEN articles
  ELSE IF c \in DOMAIN cache THEN cache[c]
  ELSE categoryIndex(c)

Occurs(word, a) ==
  \/ includes(titleText(a), word)
  \/ includes(keywordText(a), word)
  \/ includes(contentText(a), word)

SomeTermOccurs(query, a) ==
  \E k \in 1..Len(queryWordsOf(query)) : Occurs(queryWordsOf(query)[k], a)

InCategory(c) == {a \in ArticleIds : c = CatAll \/ Corpus[a].category = c}

\* C2: the envelope a search is served from searchCache equals, result for
\* result and field for field, the envelope a fresh computation for the
\* same arguments would produce in the same state.
C2_ServedEqualsFresh ==
  (SearchReturned /\ ret.hit) =>
    LET p == ret.params
        array == CandidateArray(p.category)
        ranked == IF trim(p.query) = <<>>
                  THEN RefResults(sortDesc(array,
                         [k \in 1..Len(array) |-> relevanceScore[array[k]]]))
                  ELSE _performTextSearch(array, p.query, p.language,
                                          hasTranslations, relevanceScore)
    IN /\ ~(trim(p.query) # <<>> /\ textSearchThrows(array, p.query))
       /\ ret.value = Envelope(p, slice(ranked, p.offset, p.limit))

\* C3: a cached envelope is only ever returned for the parameter tuple it
\* was computed for.
C3_HitOnlyForOwnTuple ==
  (SearchReturned /\ ret.hit) =>
    /\ ret.value.query = ret.params.query
    /\ ret.value.category = ret.params.category
    /\ ret.value.language = ret.params.language
    /\ ret.value.limit = ret.params.limit
    /\ ret.value.offset = ret.params.offset

\* C4: every article with feedback has relevanceScore
\* 1 + (2 * helpful / (helpful + notHelpful) - 1), and every article
\* without feedback has the base score.
C4_ScoreIsFunctionOfCounts ==
  \A a \in ArticleIds :
    LET h == userFeedback[a].helpful
        n == userFeedback[a].notHelpful
    IN IF h + n > 0
       THEN /\ relevanceScore[a].den > 0
            /\ relevanceScore[a].num * (h + n) = 2 * h * relevanceScore[a].den
       ELSE relevanceScore[a] = BaseRelevance

\* an article with feedback of both kinds, in unequal numbers
C4_Witness ==
  \E a \in ArticleIds :
    /\ userFeedback[a].helpful > 0
    /\ userFeedback[a].notHelpful > userFeedback[a].helpful

\* C5: relevanceScore of every article lies in [0, 3].
C5_ScoreInRange ==
  \A a \in ArticleIds :
    /\ relevanceScore[a].den > 0
    /\ 0 <= relevanceScore[a].num
    /\ relevanceScore[a].num <= 3 * relevanceScore[a].den

\* one article with only helpful feedback, several times, and one with only
\* not-helpful feedback
C5_Witness ==
  \E a, b \in ArticleIds :
    /\ userFeedback[a].helpful > 1 /\ userFeedback[a].notHelpful = 0
    /\ userFeedback[b].helpful = 0 /\ userFeedback[b].notHelpful > 0

\* C6: for a non-empty query, total is the number of matching articles and
\* hasMore = (offset + limit < total).
C6_HasMoreCountsMatches ==
  (SearchReturned /\ ~ret.hit /\ trim(ret.params.query) # <<>>) =>
    LET p == ret.params
        matching == {a \in InCategory(p.category) :
                       _calculateRelevanceScore(a, queryWordsOf(p.query),
                                                p.language, hasTranslations) > 0}
    IN /\ ret.value.total = Cardinality(matching)
       /\ ret.value.hasMore = (p.offset + p.limit < Cardinality(matching))

\* C7: a query none of whose terms occurs in any article resolves with an
\* empty result list and total = 0; it never rejects.
C7_NoMatchResolvesEmpty ==
  ( /\ ret.op = "search"
    /\ trim(ret.params.query) # <<>>
    /\ \A a \in ArticleIds : ~SomeTermOccurs(ret.params.query, a) ) =>
    /\ ret.status = "ok"
    /\ ret.value.results = <<>>
    /\ ret.value.total = 0

Injective(f) == \A x, y \in DOMAIN f : f[x] = f[y] => x = y

Rankings(S) == {f \in [1..Cardinality(S) -> S] : Injective(f)}

NonIncreasing(ids) ==
  \A k \in 1..(Len(ids) - 1) : ~RatLT(relevanceScore[ids[k]], relevanceScore[ids[k + 1]])

SearchOrSuggestStep ==
  \/ \E p \in SearchParams : SearchArticles(p)
  \/ \E i \in Slots : GetArticlesByCategory(i)
  \/ \E i \in Slots : SearchCompute(i)
  \/ \E q \in PartialQueries, l \in SuggestLimits : GetSearchSuggestions(q, l)

C9_SearchLeavesStoreUnchanged ==
  [][SearchOrSuggestStep =>
       /\ articles' = articles
       /\ userFeedback' = userFeedback
       /\ relevanceScore' = relevanceScore
       /\ \A c \in DOMAIN cache : cache'[c] = cache[c]]_vars

\* C10: every article in the results of a non-empty query has at least one
\* query term in its title, keywords or content.
C10_ResultsContainATerm ==
  (SearchReturned /\ ~ret.hit /\ trim(ret.params.query) # <<>>) =>
    \A k \in 1..Len(ret.value.results) :
      SomeTermOccurs(ret.params.query, ret.value.results[k].id)

\* searches and feedback with a local storage that may throw
StorageParams ==
  {p \in SearchParams : p.query \in { <<>>, <<"a">> } /\ p.category = CatAll /\ p.offset = 0}

NextStorage ==
  \/ DatabaseOnly /\ \E t \in BOOLEAN : LoadDatabase(t)
  \/ DatabaseOnly /\ \E p \in StorageParams : SearchArticles(p)
  \/ DatabaseOnly /\ \E a \in FeedbackIds, h \in BOOLEAN, x \in BOOLEAN :
       TotalFeedback < MaxRankFeedback /\ UpdateRelevanceScore(a, h, x)

SpecStorage == Init /\ [][NextStorage]_vars

\* loads of well-formed and of malformed files, and the calls made afterwards
ApiCalls == {"search", "byId", "suggest"}

NextMalformed ==
  \/ DatabaseOnly /\ \E f \in MalformedFiles \cup {FileOrder} : LoadFile(f, FALSE)
  \/ DatabaseOnly /\ \E p \in StorageParams : SearchArticles(p)
  \/ DatabaseOnly /\ \E a \in FeedbackIds : GetArticleById(a)
  \/ DatabaseOnly /\ \E a \in ArticleIds, h \in BOOLEAN :
       TotalFeedback < MaxFeedback /\ UpdateRelevanceScore(a, h, FALSE)
  \/ DatabaseOnly /\ \E q \in PartialQueries, l \in SuggestLimits : GetSearchSuggestions(q, l)
  \/ DatabaseOnly /\ \E op \in ApiCalls : InitializeRejected(op)

SpecMalformed == Init /\ [][NextMalformed]_vars

\* lookups and feedback by known and unknown ids, between searches
NextLookup ==
  \/ DatabaseOnly /\ \E t \in BOOLEAN : LoadDatabase(t)
  \/ DatabaseOnly /\ \E p \in StorageParams : SearchArticles(p)
  \/ DatabaseOnly /\ \E a \in FeedbackIds : GetArticleById(a)
  \/ DatabaseOnly /\ \E a \in FeedbackIds, h \in BOOLEAN :
       TotalFeedback < MaxRankFeedback /\ UpdateRelevanceScore(a, h, FALSE)

SpecLookup == Init /\ [][NextLookup]_vars

\* the longest query the tests expect a search to accept
MaxQueryLength == 1000

\* 'a'.repeat(1001)
LongQuery == [i \in 1..(MaxQueryLength + 1) |-> "a"]

\* searches with short and with overlong queries
LongParams ==
  [query : { <<"a">>, <<"A", " ", "b">>, LongQuery }, category : {CatAll},
   language : Languages, limit : Limits, offset : Offsets]

NextLong ==
  \/ DatabaseOnly /\ LoadDatabase(FALSE)
  \/ DatabaseOnly /\ \E p \in LongParams : SearchArticles(p)
  \/ DatabaseOnly /\ \E a \in ArticleIds, h \in BOOLEAN :
       TotalFeedback < MaxFeedback /\ UpdateRelevanceScore(a, h, FALSE)

SpecLong == Init /\ [][NextLong]_vars

\* suggestions for partial queries over several files
SuggestQueries ==
  { <<"a">>, <<"a", " ">>, <<"A", " ", "b">>, <<" ", "B">>, <<"b", " ", "a">>,
    <<"a", "b">>, <<" ", " ">>, <<"S", " ">>, <<>> }

NextSuggest ==
  \/ DatabaseOnly /\ \E f \in SuggestFiles \cup {FileOrder} : LoadFile(f, FALSE)
  \/ DatabaseOnly /\ \E q \in SuggestQueries, l \in 0..MaxSuggestLimit :
       GetSearchSuggestions(q, l)

SpecSuggest == Init /\ [][NextSuggest]_vars

\* feedback over several sessions of the page
NextReload ==
  \/ DatabaseOnly /\ \E t \in BOOLEAN : LoadDatabase(t)
  \/ DatabaseOnly /\ \E a \in FeedbackIds, h \in BOOLEAN, x \in BOOLEAN :
       TotalFeedback < MaxFeedback /\ UpdateRelevanceScore(a, h, x)
  \/ DatabaseOnly /\ PageReload

SpecReload == Init /\ [][NextReload]_vars

\* searches shown under each display language
CardQueries == { <<"b">>, <<"s">> }
LangDe == <<"d", "e">>

NextCards ==
  \/ NoScoring /\ LoadResolves(FALSE)
  \/ NoScoring /\ \E q \in CardQueries : issued < MaxSearches /\ PerformSearch(q)
  \/ NoScoring /\ \E l \in {LangHr, LangEn, LangEs, LangDe} : SetLanguage(l)
  \/ NoScoring /\ RunMicrotask

SpecCards == Init /\ [][NextCards]_vars

\* texts given to the language detection: stop words only (scores 2 and 3),
\* a diacritic in a short and in a longer text, domain words, a tie between
\* Croatian and English, nothing recognisable, upper case, padding
DetectTexts ==
  { <<"e", "l", " ", "l", "a">>,
    <<"e", "l", " ", "l", "a", " ", "y">>,
    <<"i", " ", "u">>,
    <<"n~">>,
    <<"a", "n~", "o">>,
    <<"W", "O", "R", "K">>,
    <<"t", "h", "e", " ", "j", "o", "b">>,
    <<"r", "a", "d", "u", " ", "j", "o", "b">>,
    <<"a", "b", "c">>,
    <<" ", " ", "e", "l">> }

NextLanguage ==
  \/ NoScoring /\ LoadResolves(FALSE)
  \/ NoScoring /\ issued < MaxDetectSearches /\ PerformSearch(<<"b">>)
  \/ NoScoring /\ \E l \in {LangHr, LangEn, LangEs, LangDe} : SetLanguage(l)
  \/ NoScoring /\ \E t \in DetectTexts : AutoDetectAndSwitch(t)
  \/ NoScoring /\ RunMicrotask

SpecLanguage == Init /\ [][NextLanguage]_vars

\* feedback, tracked searches and clicks on result cards, as time passes
TrackQueries == { <<"w", "o", "r", "k">> }

Processed == Len(scoring.sessionFeedback)

NextScoring ==
  \/ \E a \in {"a1", "a2"}, h \in BOOLEAN :
       Processed < MaxProcessed /\ ProcessFeedback(a, h)
  \/ \E q \in TrackQueries, c \in UICategories :
       Cardinality(DOMAIN scoring.categoryPreferences) < MaxTracked /\ TrackSearch(q, c)
  \/ TrackResultInteraction
  \/ dateNow < SessionStart + MaxClockSteps * ClockStep /\ ClockAdvances

SpecScoring == Init /\ [][NextScoring]_vars

\* position of an article in the articles array of the file
FilePos(a) == CHOOSE k \in 1..Len(FileOrder) : FileOrder[k] = a

\* C11: the results of a non-empty query are in non-increasing order of
\* 0.7 * searchScore + 0.3 * relevanceScore, and of two results with equal
\* combined score the one that stands first in the corpus comes first.
C11_RankedWithCorpusOrderTies ==
  (SearchReturned /\ ~ret.hit /\ trim(ret.params.query) # <<>>) =>
    LET rs == ret.value.results
        key(r) == CombinedScore(r.searchScore, r.relevanceScore)
    IN \A k \in 1..(Len(rs) - 1) :
         \/ RatGT(key(rs[k]), key(rs[k + 1]))
         \/ /\ RatEQ(key(rs[k]), key(rs[k + 1]))
            /\ FilePos(rs[k].id) < FilePos(rs[k + 1].id)

\* no job is queued and none waits for the database
Quiescent == microtasks = <<>> /\ loadWaiters = <<>>

\* C12: once every performSearch invocation has finished, the results in
\* the container are those written by the most recently issued invocation
\* (unless that one was rejected and only showed the error toast).
C12_LatestInvocationShown ==
  (Quiescent /\ issued > 0 /\ shownBy.error # issued) =>
    shownBy.results = issued

SearchTimers == {t \in timers : t.kind = "search"}

FeedbackValues(a) ==
  [i \in 1..Len(scoring.articleFeedback[a]) |-> scoring.articleFeedback[a][i].value]
FeedbackWeights(a) ==
  [i \in 1..Len(scoring.articleFeedback[a]) |-> scoring.articleFeedback[a][i].weight]

\* C14: an article with at least minFeedbackThreshold processed feedback
\* events has an adaptive score in adaptiveScores, and the score of an
\* article with three helpful events is strictly greater than the score of
\* an article with three not-helpful events of the same confidence.
C14_AdaptiveScoreStored ==
  /\ \A a \in DOMAIN scoring.articleFeedback :
       Len(scoring.articleFeedback[a]) >= minFeedbackThreshold
         => a \in DOMAIN scoring.adaptiveScores
  /\ \A a, b \in DOMAIN scoring.adaptiveScores :
       ( /\ FeedbackValues(a) = <<1, 1, 1>>
         /\ FeedbackValues(b) = <<-1, -1, -1>>
         /\ FeedbackWeights(a) = FeedbackWeights(b) )
       => RatGT(scoring.adaptiveScores[a], scoring.adaptiveScores[b])

\* C15: a result of a non-empty query carries crossLanguageMatch = true
\* exactly when articles with its originalId matched the query in more than
\* one language during the evaluation of that query.
C15_CrossLanguageFlag ==
  (ret.op = "search" /\ ret.status = "ok" /\ trim(ret.params.query) # <<>>) =>
    LET matched == MatchedIds(ret.params,
                     IF ret.params.category = CatAll THEN articles
                     ELSE categoryIndex(ret.params.category), hasTranslations)
    IN \A k \in 1..Len(ret.value.results) :
         LET r == ret.value.results[k] IN
         crossLanguageMatch(r) <=>
           \E b \in matched :
              /\ Corpus[b].originalId = Corpus[r.id].originalId
              /\ Corpus[b].language # Corpus[r.id].language

NoSiblingIn(id, lang) == SiblingsIn(id, lang, articles) = {}

\* C16: a card built for a result that has no sibling in the display
\* language shows the result alone, in its own language.
C16_FallbackToOwnLanguage ==
  \A i \in 1..Len(container) :
    NoSiblingIn(container[i].id, container[i].shownIn)
      => container[i].sections = <<container[i].id>>

\* the highest score a supported language has for the text
TopScore(text) ==
  LET n == trim(toLowerCase(text))
      all == {LanguageScore(n, supportedLanguages[i]) : i \in 1..Len(supportedLanguages)}
  IN CHOOSE m \in all : \A x \in all : x <= m

\* C17: autoDetectAndSwitch(text) leaves currentLanguage unchanged when the
\* text is shorter than 3 characters or the highest language score is 2 or
\* less; otherwise currentLanguage afterwards is a language with the
\* highest score.
C17_SwitchOnlyAboveTwo ==
  ret.op = "autoDetect" =>
    IF Len(trim(ret.text)) < 3 \/ TopScore(ret.text) <= 2
    THEN currentLanguage = ret.previous
    ELSE LanguageScore(trim(toLowerCase(ret.text)), currentLanguage) = TopScore(ret.text)

\* C17 witness: a text scoring above 2 has switched the language
C17_Witness ==
  /\ ret.op = "autoDetect"
  /\ TopScore(ret.text) > 2
  /\ currentLanguage # ret.previous

\* C18: when the database is loaded, every article with a tally in local
\* storage has that tally as its userFeedback and the relevanceScore
\* derived from it.
C18_FeedbackRestoredOnLoad ==
  [][(~isLoaded /\ isLoaded') =>
       \A a \in DOMAIN stored' :
          /\ userFeedback'[a] = stored'[a]
          /\ relevanceScore'[a] = NewRelevanceScore(stored'[a])]_vars

\* C19: an updateRelevanceScore of a known article during which local
\* storage throws still counts the feedback, sets the relevanceScore to
\* twice the helpful ratio, empties searchCache and resolves; only the
\* stored tallies stay as they were.
C19_StorageFailureNotFatal ==
  [][\A a \in ArticleIds, h \in BOOLEAN :
       UpdateRelevanceScore(a, h, TRUE) =>
         /\ userFeedback'[a].helpful = userFeedback[a].helpful + (IF h THEN 1 ELSE 0)
         /\ userFeedback'[a].notHelpful = userFeedback[a].notHelpful + (IF h THEN 0 ELSE 1)
         /\ RatEQ(relevanceScore'[a],
                  [num |-> 2 * userFeedback'[a].helpful,
                   den |-> userFeedback'[a].helpful + userFeedback'[a].notHelpful])
         /\ searchCache' = <<>>
         /\ ret' = [op |-> "update", articleId |-> a, isHelpful |-> h]
         /\ stored' = stored]_vars

\* C19 witness: an update has resolved whose tally is not the stored one,
\* after searches had filled the cache
C19_Witness ==
  /\ ret.op = "update"
  /\ ret.articleId \in ArticleIds
  /\ \/ ret.articleId \notin DOMAIN stored
     \/ stored[ret.articleId] # userFeedback[ret.articleId]
  /\ searchCache = <<>>

\* C20: the load of a file with a malformed article rejects and leaves
\* isLoaded false, and after it no searchArticles, getArticleById or
\* getSearchSuggestions call returns a value.
C20_MalformedFileRejected ==
  /\ [][\A f \in MalformedFiles : LoadFile(f, FALSE) =>
           ~isLoaded' /\ loadPromise' = "rejected"]_vars
  /\ [](loadPromise = "rejected" =>
          /\ ~isLoaded
          /\ ret.op \in ApiCalls => "value" \notin DOMAIN ret /\ ret.status = "threw")
  /\ [](isLoaded => \A k \in 1..Len(articles) : articles[k] \in ArticleIds)

\* C20 witness: a call made after the load of a malformed file has rejected
C20_Witness ==
  /\ loadPromise = "rejected"
  /\ \E k \in 1..Len(articles) : articles[k] \in DOMAIN MalformedArticles
  /\ ret.op = "search"

UnknownIds == FeedbackIds \ ArticleIds

\* C21: in a loaded database getArticleById of an unknown id resolves to
\* null, and updateRelevanceScore of an unknown id resolves and leaves the
\* counters, the scores, the stored feedback and searchCache as they were.
C21_UnknownIdIsNotFound ==
  /\ []((ret.op = "byId" /\ ret.articleId \in UnknownIds) => ret.value = "null")
  /\ [][\A a \in UnknownIds, h \in BOOLEAN :
          UpdateRelevanceScore(a, h, FALSE) =>
            /\ ret' = [op |-> "update", articleId |-> a, isHelpful |-> h]
            /\ UNCHANGED <<userFeedback, relevanceScore, stored, searchCache>>]_vars

\* C21 witness: feedback for an unknown id has resolved while a search is
\* cached and a tally is stored
C21_Witness ==
  /\ ret.op = "update"
  /\ ret.articleId \in UnknownIds
  /\ searchCache # <<>>
  /\ stored # <<>>

\* C22: a search whose query is longer than the length bound is rejected
\* and adds no cache entry.
C22_OverlongQueryRejected ==
  (ret.op = "search" /\ Len(ret.params.query) > MaxQueryLength) =>
    /\ ret.status = "threw"
    /\ cacheKey(ret.params) \notin DOMAIN searchCache

\* the strings getSearchSuggestions goes through: the keyword index, then
\* the titles in array order
Candidates == keywordIndex \o [k \in 1..Len(articles) |-> Corpus[articles[k]].title]

FirstPos(x) ==
  CHOOSE i \in 1..Len(Candidates) :
    Candidates[i] = x /\ \A j \in 1..(i - 1) : Candidates[j] # x

MatchesPartial(x, partialQuery) == includes(toLowerCase(x), toLowerCase(partialQuery))

\* C23: getSearchSuggestions returns at most limit distinct strings, each
\* containing the partial query whatever the letter case, in the order in
\* which the keyword index and then the titles are gone through, leaving
\* out none that comes before one it returns; a partial query shorter than
\* 2 characters gives the empty list.
C23_SuggestionsCappedOrdered ==
  ret.op = "suggest" =>
    LET v == ret.value
        all == {Candidates[i] : i \in 1..Len(Candidates)}
    IN IF Len(ret.partialQuery) < 2 THEN v = <<>>
       ELSE /\ Len(v) <= ret.limit
            /\ \A i \in 1..Len(v) : v[i] \in all /\ MatchesPartial(v[i], ret.partialQuery)
            /\ \A i, j \in 1..Len(v) : i < j => FirstPos(v[i]) < FirstPos(v[j])
            /\ \A c \in all :
                 (MatchesPartial(c, ret.partialQuery) /\ \A i \in 1..Len(v) : v[i] # c)
                   => /\ Len(v) = ret.limit
                      /\ \A i \in 1..Len(v) : FirstPos(v[i]) < FirstPos(c)

\* C23 witness: two keywords and then a title are suggested, the title
\* that equals the first keyword being left out
C23_Witness ==
  /\ ret.op = "suggest"
  /\ ret.limit = 3
  /\ ret.value = << <<"a", " ", "b">>, <<"a", " ", "b", "a">>, <<"A", " ", "b">> >>

NextProfile ==
  \/ \E a \in {"a1", "a2"}, h \in BOOLEAN :
       Processed < MaxProcessed /\ ProcessFeedback(a, h)
  \/ \E q \in TrackQueries, c \in UICategories :
       Cardinality(DOMAIN scoring.categoryPreferences) < MaxTracked /\ TrackSearch(q, c)
  \/ SaveUserData
  \/ LoadUserData
  \/ ResetUserData

SpecProfile == Init /\ [][NextProfile]_vars

\* no helpful / notHelpful tally of the table `before` is lower in `after`
TalliesKept(before, after) ==
  \A k \in DOMAIN before :
    /\ k \in DOMAIN after
    /\ after[k].helpful >= before[k].helpful
    /\ after[k].notHelpful >= before[k].notHelpful

\* C24: a step other than resetUserData keeps the profile of the current
\* user once it exists, and lowers none of its helpful / notHelpful tallies,
\* per category, per keyword or overall.
C24_ProfileOnlyGrows ==
  [][ (scoring.profile # <<>> /\ ~ResetUserData) =>
        /\ scoring'.profile # <<>>
        /\ TalliesKept(scoring.profile.categories, scoring'.profile.categories)
        /\ TalliesKept(scoring.profile.keywords, scoring'.profile.keywords)
        /\ scoring'.profile.feedbackPatterns.helpfulCount
             >= scoring.profile.feedbackPatterns.helpfulCount
        /\ scoring'.profile.feedbackPatterns.notHelpfulCount
             >= scoring.profile.feedbackPatterns.notHelpfulCount ]_vars
PersonalQueries ==
  { <<"w", "o", "r", "k">>,
    <<"W", "o", "r", "k", " ", "l", "a", "w">>,
    <<"c", "o", "n", "s", "t", "r", "u", "c", "t", "o", "r">> }

PersonalContexts ==
  [query : PersonalQueries \cup {<<>>, <<"l", "a", "w", " ", "o", "f">>},
   category : UICategories \cup {<<>>}]

NextPersonal ==
  \/ \E h \in BOOLEAN :
       Processed < MaxProcessed /\ ProcessFeedback("a1", h)
  \/ \E q \in PersonalQueries, c \in UICategories :
       Cardinality(DOMAIN scoring.categoryPreferences) < MaxTracked /\ TrackSearch(q, c)
  \/ \E a \in {"a1", "a2"}, ctx \in PersonalContexts :
       CalculatePersonalizedScore(a, ctx)

SpecPersonal == Init /\ [][NextPersonal]_vars

\* C25: calculatePersonalizedScore returns a number between 0 and 3 for every
\* profile and search context, and exactly 1 while the current user has no
\* profile.
C25_PersonalizedScoreInRange ==
  ret.op = "personalized" =>
    /\ ~IsNaN(ret.value)
    /\ ~RatLT(ret.value, [num |-> 0, den |-> 1])
    /\ ~RatLT([num |-> 3, den |-> 1], ret.value)
    /\ scoring.profile = <<>> => RatEQ(ret.value, [num |-> 1, den |-> 1])
ThemeNames == Themes \cup {"blue", "constructor"}

NextTheme ==
  \/ \E m \in BOOLEAN : ThemeInitialize(m)
  \/ ToggleTheme
  \/ \E t \in ThemeNames : ThemeChangeRequested(t)
  \/ \E m \in BOOLEAN : SystemPreferenceChange(m)
  \/ ThemeReady
  \/ ThemeTransitionEnds

SpecTheme == Init /\ [][NextTheme]_vars

\* C26: every toggleTheme() call flips currentTheme between light and dark,
\* whether or not a theme transition is running when it is made.
C26_ToggleFlipsTheme ==
  ret.op = "toggleTheme" => theme.currentTheme # ret.before
\* values of navigator.language
BrowserLanguages ==
  { <<"h", "r">>, <<"e", "n", "-", "U", "S">>, <<"E", "S">>,
    <<"d", "e", "-", "D", "E">>, <<"e", "s", "_", "M", "X">> }

\* codes offered to setLanguage and found in storage
LanguageCodes == {LangHr, LangEn, LangEs, LangDe, <<"E", "N">>, <<"e", "n", "-", "U", "S">>}

NextSupported ==
  \/ NoScoring /\ \E b \in BrowserLanguages : NewLanguageManager(b)
  \/ NoScoring /\ LanguageInitialize
  \/ NoScoring /\ \E l \in LanguageCodes : SetLanguage(l)
  \/ NoScoring /\ \E v \in LanguageCodes : PreferenceStored(v)
  \/ NoScoring /\ \E t \in DetectTexts : AutoDetectAndSwitch(t)

SpecSupported == Init /\ [][NextSupported]_vars

\* C27: currentLanguage is one of hr, en, es in every state, whatever the
\* browser language, the stored preference and the text offered for
\* detection; setLanguage with another code leaves currentLanguage as it was.
C27_LanguageAlwaysSupported ==
  /\ InSeq(currentLanguage, supportedLanguages)
  /\ (ret.op = "setLanguage" /\ ~InSeq(ret.langCode, supportedLanguages))
       => currentLanguage = ret.previous

\* C27 witness: a language manager constructed in an English browser has
\* been initialized over a stored preference that is not a supported code;
\* it stays with English and stores English.
C27_Witness ==
  /\ ret.op = "languageInitialize"
  /\ ret.savedLang = LangDe
  /\ ret.previous = LangEn
  /\ currentLanguage = LangEn
  /\ languageInitialized
  /\ savedLanguage = LangEn
HistoryQueries == { <<"a">>, <<"b">>, <<"a", " ">>, <<"(">>, <<" ">> }

NextHistory ==
  \/ NoScoring /\ LoadResolves(FALSE)
  \/ NoScoring /\ \E q \in HistoryQueries : issued < MaxSearches /\ PerformSearch(q)
  \/ NoScoring /\ RunMicrotask

SpecHistory == Init /\ [][NextHistory]_vars

\* C28: the search history is in the order of the searches: when a search of
\* another query completes after the first one, the first query stays at
\* index 0 and the new one is at index 1.
C28_HistoryInSearchOrder ==
  [][ (Len(searchHistory) = 1 /\ searchHistory' # searchHistory) =>
        /\ Len(searchHistory') = 2
        /\ searchHistory'[1] = searchHistory[1] ]_vars
\* searches of one and of two terms, with and without data.translations
BonusParams ==
  [query : { <<"a">>, <<"A", " ", "b">>, <<"b", " ", "a">>, <<"s">> },
   category : {CatAll, CatSW}, language : Languages, limit : Limits, offset : {0}]

NextBonus ==
  \/ DatabaseOnly /\ \E t \in BOOLEAN : LoadDatabase(t)
  \/ DatabaseOnly /\ \E p \in BonusParams : SearchArticles(p)
  \/ DatabaseOnly /\ \E a \in ArticleIds, h \in BOOLEAN :
       TotalFeedback < MaxFeedback /\ UpdateRelevanceScore(a, h, FALSE)

SpecBonus == Init /\ [][NextBonus]_vars

\* a text search has just been computed
ScoredSearch == SearchReturned /\ ~ret.hit /\ trim(ret.params.query) # <<>>

\* the title, keyword and content matches of all query words
TermPoints(a, words) ==
  SumSeq([k \in 1..Len(words) |->
            10 * matchCount(titleText(a), words[k])
          + 5 * matchCount(keywordText(a), words[k])
          + matchCount(contentText(a), words[k])])

\* +20 for the phrase in the title, +10 for the phrase in the content
PhrasePoints(a, words) ==
  IF Len(words) > 1
  THEN (IF includes(titleText(a), join(words)) THEN 20 ELSE 0)
     + (IF includes(contentText(a), join(words)) THEN 10 ELSE 0)
  ELSE 0

\* +3 for every word and every category whose list has a term with the word
TranslationPoints(words, language) ==
  SumSeq([k \in 1..Len(words) |-> TranslationBonus(words[k], language, hasTranslations)])

\* +3 for every word found in the list of the article's own category
OwnTranslationPoints(a, words, language) ==
  LET c == Corpus[a].category
      list == IF hasTranslations /\ c \in DOMAIN Translations
                 /\ language \in DOMAIN Translations[c]
              THEN Translations[c][language] ELSE <<>>
  IN SumSeq([k \in 1..Len(words) |->
               IF \E j \in 1..Len(list) : includes(list[j], words[k]) THEN 3 ELSE 0])

\* C29: the score of a result is the sum of the term matches and the
\* translation bonuses of the query words, plus the phrase bonus counted
\* once, and no phrase bonus for a query of one term.
C29_PhraseBonusOnce ==
  ScoredSearch =>
    LET words == queryWordsOf(ret.params.query)
        rs == ret.value.results
    IN \A k \in 1..Len(rs) :
         rs[k].searchScore = TermPoints(rs[k].id, words) + PhrasePoints(rs[k].id, words)
                             + TranslationPoints(words, ret.params.language)

\* C30: the score of a result is the sum of the term matches and the phrase
\* bonuses as the loop adds them, plus 3 for every query word found in the
\* translation list of the result's own category for the requested language.
C30_TranslationBonusOwnCategory ==
  ScoredSearch =>
    LET words == queryWordsOf(ret.params.query)
        rs == ret.value.results
    IN \A k \in 1..Len(rs) :
         rs[k].searchScore = TermPoints(rs[k].id, words)
                             + Len(words) * PhrasePoints(rs[k].id, words)
                             + OwnTranslationPoints(rs[k].id, words, ret.params.language)
SuggestTimers == {t \in timers : t.kind = "suggest"}

\* C31: the input events of a burst leave one suggestion fetch pending, not
\* one per event, and it is due before the debounced search.
C31_OneSuggestionFetchPerBurst ==
  /\ Cardinality(SuggestTimers) <= 1
  /\ \A f \in SuggestTimers, t \in SearchTimers : f.left < t.left
\* feedback after dwells of whole seconds
NextConfidence ==
  \/ Processed < MaxProcessed /\ ProcessFeedback("a1", TRUE)
  \/ \E q \in TrackQueries :
       Cardinality(DOMAIN scoring.categoryPreferences) < MaxTracked /\ TrackSearch(q, CatW)
  \/ TrackResultInteraction
  \/ \E ms \in {1000, 2000} :
       dateNow < SessionStart + MaxClockSteps * ClockStep /\ TimePasses(ms)

SpecConfidence == Init /\ [][NextConfidence]_vars

\* the step is a processFeedback call
FeedbackProcessed == Len(scoring'.sessionFeedback) = Len(scoring.sessionFeedback) + 1

\* the confidence, in tenths, given to the feedback of the step
GivenConfidence == scoring'.sessionFeedback[Len(scoring'.sessionFeedback)].confidence

\* C32: the confidence given to a feedback is between 0 and 1, it is not
\* lower than the confidence the same feedback would get after a shorter
\* dwell, and after a dwell of 5000 ms or more it contains the full dwell
\* bonus of 0.3, next to the bonus for frequent feedback and the discount of
\* 0.2 for feedback less than 2000 ms after the tracked search.
C32_ConfidenceGrowsWithDwell ==
  [][ FeedbackProcessed =>
        LET start == scoring.currentResultStartTime
            frequent == IF scoring.feedbackFrequency > 5 THEN 1 ELSE 0
            quick == IF scoring.currentSearchContext # <<>>
                        /\ dateNow - scoring.currentSearchContext.timestamp < 2000
                     THEN 2 ELSE 0
        IN /\ GivenConfidence \in 0..10
           /\ \A later \in start..dateNow :
                (start # 0 /\ later # 0) =>
                  calculateFeedbackConfidence(
                    [scoring EXCEPT !.currentResultStartTime = later], dateNow)
                    <= GivenConfidence
           /\ (start # 0 /\ dateNow - start >= 5000) =>
                GivenConfidence = ClampTenths(5 + 3 + frequent - quick) ]_vars
NextPairing ==
  \/ DatabaseOnly /\ \E f \in CardFiles \cup {FileOrder} : LoadFile(f, FALSE)
  \/ NoScoring /\ \E l \in {LangHr, LangEn, LangEs, LangDe} : SetLanguage(l)
  \/ NoScoring /\ \E a \in DOMAIN Corpus : CreateResultCard(a)

SpecPairing == Init /\ [][NextPairing]_vars

\* C33: in a card with two sections the first, labelled as the Croatian
\* original, holds a Croatian article, the second holds another article of
\* the same originalId, and each label names the language of its article.
C33_PairingShowsOriginal ==
  (ret.op = "card" /\ Len(ret.card.sections) = 2) =>
    LET original == ret.card.sections[1]
        other == ret.card.sections[2]
    IN /\ Corpus[original].language = LangHr
       /\ other # original
       /\ Corpus[other].originalId = Corpus[original].originalId
       /\ \A i \in 1..2 : ret.card.labels[i] = Corpus[ret.card.sections[i]].language

(***************************************************************************)
(* The load of the corpus, from the constructor on                         *)
(***************************************************************************)
LoadCallers == ApiCalls \cup {"update"}

NextOnce ==
  \/ DatabaseOnly /\ Initialize
  \/ DatabaseOnly /\ \E f \in MalformedFiles \cup {FileOrder} : LoadFile(f, FALSE)
  \/ DatabaseOnly /\ \E p \in StorageParams : SearchArticles(p)
  \/ DatabaseOnly /\ \E a \in FeedbackIds : GetArticleById(a)
  \/ DatabaseOnly /\ \E a \in ArticleIds, h \in BOOLEAN :
       TotalFeedback < MaxFeedback /\ UpdateRelevanceScore(a, h, FALSE)
  \/ DatabaseOnly /\ \E q \in PartialQueries, l \in SuggestLimits : GetSearchSuggestions(q, l)
  \/ DatabaseOnly /\ \E op \in LoadCallers : InitializeRejected(op)

SpecOnce == InitConstructed /\ [][NextOnce]_vars

\* C34: _loadDatabase is called by the first initialize() only, the promise
\* it returned settles once and is never replaced, the set of articles is
\* assigned by that one load only, and every call that completes sees the
\* outcome of that load: a value when it fulfilled, a rejection when it
\* rejected.
C34_LoadedOnce ==
  /\ [][(ret'.op = "initialize" /\ ret'.started) => loadPromise = "null"]_vars
  /\ [][loadPromise' # loadPromise =>
          \/ loadPromise = "null" /\ loadPromise' = "pending"
          \/ loadPromise = "pending" /\ loadPromise' \in {"fulfilled", "rejected"}]_vars
  /\ [][(\/ Len(articles') # Len(articles)
          \/ \E k \in 1..Len(articles) : \A j \in 1..Len(articles') : articles'[j] # articles[k])
          => loadPromise = "pending" /\ loadPromise' # "pending"]_vars
  /\ [](ret.op = "initialize" => ret.promise = loadPromise \/ ret.promise = "pending")
  /\ [](ret.op \in LoadCallers =>
          IF "status" \in DOMAIN ret /\ ret.status = "threw"
          THEN loadPromise = "rejected" /\ ~isLoaded
          ELSE loadPromise = "fulfilled" /\ isLoaded)

\* C34 witness: initialize() called again after the load failed returned the
\* rejected promise and did not call _loadDatabase
C34_Witness ==
  /\ ret.op = "initialize"
  /\ ~ret.started
  /\ ret.promise = "rejected"
  /\ loadPromise = "rejected"
  /\ articles # <<>>

(***************************************************************************)
(* Paging and new queries                                                  *)
(***************************************************************************)
PagingQueries == { <<"a">>, <<"b">> }

\* the load-more button is in the page only under displayed results
NextPaging ==
  \/ NoScoring /\ LoadResolves(FALSE)
  \/ NoScoring /\ \E q \in PagingQueries : issued < MaxSearches /\ SelectSuggestion(q)
  \/ NoScoring /\ \E q \in PagingQueries : issued < MaxSearches /\ SuggestedTagClick(q)
  \/ NoScoring /\ issued < MaxSearches /\ currentPage < MaxPage /\ container # <<>>
       /\ LoadMoreResults
  \/ NoScoring /\ RunMicrotask

SpecPaging == Init /\ [][NextPaging]_vars

\* the search jobs the step has queued
JobsIssued ==
  { k \in {microtasks'[i] : i \in 1..Len(microtasks')}
            \cup {loadWaiters'[i] : i \in 1..Len(loadWaiters')} :
      issued' = issued + 1 /\ k.inv = issued + 1 }

\* C35: a search issued for a query other than the one searched last (the
\* head of the search history), or with no search before it, passes offset
\* 0 to searchArticles.
C35_NewQueryFirstPage ==
  [][\A k \in JobsIssued :
       (searchHistory = <<>> \/ k.query # searchHistory[1]) => k.params.offset = 0]_vars

(***************************************************************************)
(* Theme changes with the timers of applyTheme, which always fire          *)
(***************************************************************************)
SpecThemeLive ==
  /\ Init /\ [][NextTheme]_vars
  /\ WF_vars(ThemeReady)
  /\ WF_vars(ThemeTransitionEnds)

\* C36: a running theme transition always ends, currentTheme is always
\* light or dark, and a themeChangeRequested event that names neither
\* leaves currentTheme as it was.
C36_TransitionReleased ==
  /\ (theme.isTransitioning ~> ~theme.isTransitioning)
  /\ [](theme.currentTheme \in Themes)
  /\ [][\A t \in ThemeNames \ Themes :
          ThemeChangeRequested(t) => theme'.currentTheme = theme.currentTheme]_vars

(***************************************************************************)
(* The user data over a save and a load                                    *)
(***************************************************************************)
\* saveUserData followed by loadUserData
SaveThenLoad ==
  /\ scoring' = loadUserData(saveUserData(scoring))
  /\ UNCHANGED dateNow
  /\ UNCHANGED <<dbVars, uiVars, pageVars, shellVars>>

NextRoundTrip ==
  \/ \E q \in TrackQueries, c \in UICategories :
       Cardinality(DOMAIN scoring.categoryPreferences) < MaxTracked /\ TrackSearch(q, c)
  \/ \E h \in BOOLEAN : Processed < MaxProcessed /\ ProcessFeedback("a1", h)
  \/ SaveThenLoad

SpecRoundTrip == Init /\ [][NextRoundTrip]_vars

\* C37: saveUserData followed by loadUserData leaves the search-pattern and
\* category-preference tallies as they were saved, and after it trackSearch
\* does not throw.
C37_SaveLoadRoundTrip ==
  /\ [][SaveThenLoad =>
          /\ scoring'.searchPatterns = scoring.searchPatterns
          /\ scoring'.categoryPreferences = scoring.categoryPreferences]_vars
  /\ [][SaveThenLoad => ~trackSearchThrows(scoring')]_vars

(***************************************************************************)
(* SearchEngine.initialize and the listeners it registers                  *)
(***************************************************************************)
MaxEngineCalls == 2

EngineFrame == UNCHANGED <<uiVars, pageVars, scoringVars, theme>>

\* SearchEngine.initialize() up to `await window.Database.initialize()`
EngineInitialize ==
  /\ IF engine.isInitialized
     THEN UNCHANGED <<engine, loadPromise>>
     ELSE /\ engine' = [engine EXCEPT !.awaiting = @ + 1]
          /\ loadPromise' = initialize(loadPromise).loadPromise
  /\ ret' = [op |-> "engineInitialize", returned |-> engine.isInitialized]
  /\ UNCHANGED <<isLoaded, articles, hasTranslations, userFeedback, relevanceScore,
                 cache, searchCache, stored, calls>>
  /\ EngineFrame

\* SearchEngine.initialize() after the await: setupEventListeners adds its
\* listeners and isInitialized is set; a rejected load is thrown on
EngineResumes ==
  /\ engine.awaiting > 0
  /\ loadPromise \in {"fulfilled", "rejected"}
  /\ engine' = IF loadPromise = "fulfilled"
               THEN [engine EXCEPT !.awaiting = @ - 1, !.listeners = @ + 1,
                                   !.isInitialized = TRUE]
               ELSE [engine EXCEPT !.awaiting = @ - 1]
  /\ ret' = [op |-> "engineResumes"]
  /\ UNCHANGED dbData
  /\ EngineFrame

\* handleSearchInput(value) on the timers, this.searchTimeout and
\* this.currentQuery
handleSearchInput(st, value) ==
  LET q == trim(value)
      suggest == IF Len(q) >= 2
                 THEN {[id |-> st.timerCount + 1, kind |-> "suggest",
                        left |-> suggestionDelay]}
                 ELSE {}
      id == st.timerCount + Cardinality(suggest) + 1
  IN [timers |-> ClearTimeout(st.timers, st.searchTimeout) \cup suggest
                   \cup {[id |-> id, kind |-> "search", left |-> debounceDelay]},
      searchTimeout |-> id, timerCount |-> id, currentQuery |-> q]

RECURSIVE Dispatch(_, _, _)
\* the input event delivered to n registered listeners, in order
Dispatch(st, value, n) ==
  IF n = 0 THEN st ELSE Dispatch(handleSearchInput(st, value), value, n - 1)

\* one input event on #search-input: every registered listener runs
InputEvent(value) ==
  /\ HandlerMayRun
  /\ engine.listeners > 0
  /\ LET st == Dispatch([timers |-> timers, searchTimeout |-> searchTimeout,
                         timerCount |-> timerCount, currentQuery |-> currentQuery],
                        value, engine.listeners)
     IN /\ timers' = st.timers
        /\ searchTimeout' = st.searchTimeout
        /\ timerCount' = st.timerCount
        /\ currentQuery' = st.currentQuery
  /\ inputValue' = value
  /\ lastInput' = [value |-> value, age |-> 0, replaced |-> FALSE,
                   burst |-> IF lastInput.age < debounceDelay
                             THEN lastInput.burst + 1 ELSE 1]
  /\ ret' = [op |-> "input", listeners |-> engine.listeners]
  /\ UNCHANGED <<currentFilters, currentPage, currentLanguage, savedLanguage, languageInitialized, issued, microtasks,
                 loadWaiters, container, shownBy, searchHistory, suggestionBox>>
  /\ UNCHANGED dbData

NextListeners ==
  \/ engine.awaiting + engine.listeners < MaxEngineCalls /\ EngineInitialize
  \/ EngineResumes
  \/ NoScoring /\ LoadResolves(FALSE)
  \/ NoScoring /\ \E v \in InputValues :
       timerCount + 2 * engine.listeners <= MaxTimers /\ InputEvent(v)
  \/ NoScoring /\ \E t \in timers : FireTimer(t)
  \/ NoScoring /\ Tick
  \/ NoScoring /\ RunMicrotask

SpecListeners == InitConstructed /\ [][NextListeners]_vars

\* C38: the listeners of setupEventListeners are registered at most once,
\* whatever the number of initialize() calls, and an input event leaves at
\* most one debounced search pending.
C38_ListenersOnce ==
  /\ [](engine.listeners <= 1)
  /\ [][\A v \in InputValues : InputEvent(v) => Cardinality(SearchTimers') <= 1]_vars

(***************************************************************************)
(* The debounced search and the language detected from its query           *)
(***************************************************************************)
DetectInputs ==
  { <<"t", "h", "e", " ", "j", "o", "b">>,
    <<"e", "l", " ", "l", "a", " ", "y">>,
    <<"b">> }

NextDetect ==
  \/ NoScoring /\ LoadResolves(FALSE)
  \/ NoScoring /\ \E v \in DetectInputs : timerCount + 2 <= MaxTimers /\ HandleSearchInput(v)
  \/ NoScoring /\ \E t \in timers : FireTimer(t)
  \/ NoScoring /\ Tick
  \/ NoScoring /\ RunMicrotask

SpecDetect == Init /\ [][NextDetect]_vars

\* C39: the search started by the debounce timer carries the language that
\* autoDetectAndSwitch leaves for its query, which is currentLanguage after
\* the timer has run.
C39_DetectBeforeSearch ==
  [][((\E t \in timers : FireTimer(t)) /\ ret'.op = "timer"
        /\ ret'.action = "performSearch") =>
       /\ JobsIssued # {}
       /\ \A k \in JobsIssued :
            /\ k.query = currentQuery
            /\ k.params.language = autoDetectAndSwitch(k.query, currentLanguage)
            /\ k.params.language = currentLanguage']_vars

\* C39 witness: the timer has fired for a query whose detection changed the
\* language, and the search it queued carries the new language
C39_Witness ==
  /\ ret.op = "timer"
  /\ ret.action = "performSearch"
  /\ ret.previous # currentLanguage
  /\ \E i \in 1..Len(microtasks) :
       /\ microtasks[i].pc = "search"
       /\ microtasks[i].inv = issued
       /\ microtasks[i].params.language = currentLanguage
====
